---- MODULE Spec2Model ----
(***************************************************************************)
(* Earley / Leo / GLL parsers of final_parser, as state machines.          *)
(*                                                                         *)
(* A behaviour picks one grammar of the catalogue and one token string,    *)
(* then runs the parsers on it step by step: one action per iteration of   *)
(* the chart-filling loop (Earley.py fill_chart), one per call of          *)
(* parse_prefix / recognize_on / parse_on.                                 *)
(* The compiled GLL driver (GLL.py compile_grammar) takes one action per   *)
(* iteration of its dispatch loop.                                         *)
(*                                                                         *)
(* Columns are Python lists indexed from 0; chart[c + 1] is column c.      *)
(* An item is [name, expr, dot, s, t]: s is s_col.index, t tells a TState  *)
(* from a State.  e_col of an item stored in a column is that column.      *)
(***************************************************************************)
EXTENDS Integers, Sequences, FiniteSets, TLC

\* Longest token string tried.
MaxLen == 4

----------------------------------------------------------------------------
(* Grammars: nonterminal |-> sequence of alternatives. *)

\* <A> -> a <A> | a           (right recursion)
G_RR == [g |-> ("<A>" :> << <<"a", "<A>">>, <<"a">> >>),
         start |-> "<A>", sigma |-> {"a"}]

\* <S> -> <S> <S> | a         (ambiguous, finitely many trees)
G_AMB == [g |-> ("<S>" :> << <<"<S>", "<S>">>, <<"a">> >>),
          start |-> "<S>", sigma |-> {"a"}]

\* <S> -> <A> ; <A> -> <A> a | epsilon   (GLL.py g1, left recursion)
G_LREC == [g |-> ("<S>" :> << <<"<A>">> >>
                  @@ "<A>" :> << <<"<A>", "a">>, <<>> >>),
           start |-> "<S>", sigma |-> {"a", "b"}]

\* <A> -> <B> | a ; <B> -> <A>           (cyclic unit productions)
G_CYC == [g |-> ("<A>" :> << <<"<B>">>, <<"a">> >>
                 @@ "<B>" :> << <<"<A>">> >>),
          start |-> "<A>", sigma |-> {"a"}]

\* <S> -> b <A> | a <S> <S> ; <A> -> epsilon
G_LEO == [g |-> ("<S>" :> << <<"b", "<A>">>, <<"a", "<S>", "<S>">> >>
                 @@ "<A>" :> << <<>> >>),
          start |-> "<S>", sigma |-> {"a", "b"}]

\* <S> -> $ <S> | epsilon     (the end marker of GLL as a terminal)
G_DOL == [g |-> ("<S>" :> << <<"$", "<S>">>, <<>> >>),
          start |-> "<S>", sigma |-> {"$"}]

\* <S> -> epsilon | <B> <B> ; <B> -> epsilon
G_EPS == [g |-> ("<S>" :> << <<>>, <<"<B>", "<B>">> >>
                 @@ "<B>" :> << <<>> >>),
          start |-> "<S>", sigma |-> {"a"}]

\* <S> -> <T> + <S> | <T> ; <T> -> 1     (unambiguous arithmetic)
G_ARI == [g |-> ("<S>" :> << <<"<T>", "+", "<S>">>, <<"<T>">> >>
                 @@ "<T>" :> << <<"1">> >>),
          start |-> "<S>", sigma |-> {"1", "+"}]

\* <S> -> <A> <A> b ; <A> -> a | a a
G_INT == [g |-> ("<S>" :> << <<"<A>", "<A>", "b">> >>
                 @@ "<A>" :> << <<"a">>, <<"a", "a">> >>),
          start |-> "<S>", sigma |-> {"a", "b"}]

\* <S> -> <A> ; <A> -> <S> a | a
G_LEFT == [g |-> ("<S>" :> << <<"<A>">> >>
                  @@ "<A>" :> << <<"<S>", "a">>, <<"a">> >>),
           start |-> "<S>", sigma |-> {"a"}]

\* <S> -> <A> | a <S> ; <A> -> (empty)
G_OPT == [g |-> ("<S>" :> << <<"<A>">>, <<"a", "<S>">> >>
                 @@ "<A>" :> << <<>> >>),
          start |-> "<S>", sigma |-> {"a"}]

\* <S> -> <A> <A> | a <S> ; <A> -> a | b
G_PAIR == [g |-> ("<S>" :> << <<"<A>", "<A>">>, <<"a", "<S>">> >>
                  @@ "<A>" :> << <<"a">>, <<"b">> >>),
           start |-> "<S>", sigma |-> {"a", "b"}]

\* <S> -> $ a     (the end marker of GLL as the first terminal of a rule)
G_DOLA == [g |-> ("<S>" :> << <<"$", "a">> >>),
           start |-> "<S>", sigma |-> {"$", "a"}]

\* <S> -> a | a <A> ; <A> -> epsilon     (one derivation without epsilon)
G_TAIL == [g |-> ("<S>" :> << <<"a">>, <<"a", "<A>">> >>
                  @@ "<A>" :> << <<>> >>),
           start |-> "<S>", sigma |-> {"a"}]

Grammars == <<G_RR, G_AMB, G_LREC, G_CYC, G_LEO, G_DOL, G_EPS, G_ARI, G_INT,
              G_LEFT, G_OPT, G_PAIR, G_DOLA, G_TAIL>>

\* Token strings over sigma, at most n long.
RECURSIVE Texts(_, _)
Texts(sigma, n) ==
  IF n = 0 THEN {<<>>}
  ELSE LET shorter == Texts(sigma, n - 1)
       IN shorter \cup {Append(w, a) : w \in shorter, a \in sigma}

\* Python's None, where a symbol is expected.
None == "None"

\* Symbols of the shape <...>.
NtNames == {"<S>", "<A>", "<B>", "<C>", "<T>"}

is_nt(k) == k \in NtNames

\* An order on a finite set (iteration order of a Python set or dict).
RECURSIVE SetToSeq(_)
SetToSeq(S) ==
  IF S = {} THEN <<>>
  ELSE LET x == CHOOSE y \in S : TRUE IN <<x>> \o SetToSeq(S \ {x})

----------------------------------------------------------------------------
(* State and Column *)

State(name, expr, dot, s_col) ==
  [name |-> name, expr |-> expr, dot |-> dot, s |-> s_col, t |-> FALSE]

TState(name, expr, dot, s_col) ==
  [name |-> name, expr |-> expr, dot |-> dot, s |-> s_col, t |-> TRUE]

finished(st) == st.dot >= Len(st.expr)

at_dot(st) == IF st.dot < Len(st.expr) THEN st.expr[st.dot + 1] ELSE None

t_key(st) == <<st.name, st.expr, st.dot, st.s>>

advance(st) == State(st.name, st.expr, st.dot + 1, st.s)

\* Column.add without the look-up in _unique.
add_append(col, st) == Append(col, st)

\* Column.add: an item whose key is already in the column is dropped.
add(col, st) ==
  IF \E k \in 1..Len(col) : t_key(col[k]) = t_key(st) THEN col
  ELSE Append(col, st)

RECURSIVE add_all(_, _)
add_all(col, sts) ==
  IF sts = <<>> THEN col ELSE add_all(add(col, Head(sts)), Tail(sts))

\* f applied to each element of a sequence.
Map(f(_), s) == [k \in 1..Len(s) |-> f(s[k])]

Range(s) == {s[k] : k \in 1..Len(s)}

----------------------------------------------------------------------------
(* nullable *)

strip(alt, nxt) == SelectSeq(alt, LAMBDA sym : sym # nxt)

no_terminal(alt) == \A k \in 1..Len(alt) : is_nt(alt[k])

rem_terminals(g) ==
  LET keep(k) == SelectSeq(g[k], no_terminal)
  IN [k \in {k \in DOMAIN g : keep(k) # <<>>} |-> keep(k)]

\* One pass of the while loop of nullable over g_cur, for the key nxt:
\* the alternatives of k up to the first that nxt empties.
first_empty(alts, nxt) ==
  LET hits == {k \in 1..Len(alts) : strip(alts[k], nxt) = <<>>}
  IN IF hits = {} THEN 0 ELSE CHOOSE k \in hits : \A h \in hits : k <= h

\* g_alts keeping the alternatives as they were, nxt not taken out.
g_alts_unstripped(alts, nxt) ==
  LET e == first_empty(alts, nxt)
  IN IF e = 0 THEN alts ELSE SubSeq(alts, 1, e - 1)

g_alts(alts, nxt) ==
  LET e == first_empty(alts, nxt)
      kept == IF e = 0 THEN alts ELSE SubSeq(alts, 1, e - 1)
  IN Map(LAMBDA alt : strip(alt, nxt), kept)

RECURSIVE nullable_loop(_, _, _)
nullable_loop(nullable_keys, unprocessed, g_cur) ==
  IF unprocessed = <<>> THEN nullable_keys
  ELSE LET nxt == Head(unprocessed)
           found == {k \in DOMAIN g_cur : first_empty(g_cur[k], nxt) # 0}
           g_nxt == [k \in {k \in DOMAIN g_cur : g_alts(g_cur[k], nxt) # <<>>}
                       |-> g_alts(g_cur[k], nxt)]
       IN nullable_loop(nullable_keys \cup found,
                        Tail(unprocessed) \o SetToSeq(found), g_nxt)

nullable(g) ==
  LET nullable_keys == {k \in DOMAIN g : \E a \in 1..Len(g[k]) : g[k][a] = <<>>}
  IN nullable_loop(nullable_keys, SetToSeq(nullable_keys), rem_terminals(g))

----------------------------------------------------------------------------
(* Earley recognizer *)

\* The input, then the EarleyParser run: position in the call (pc), the
\* chart, the column and item fill_chart is at, what parse_prefix and
\* recognize_on returned or raised, what parse_on yielded.
VARIABLES gi, text, pc, chart, ci, si, cursor, states, starts, raised,
          yielded, diverged

\* The LeoParser run on the same input: the same, with the transitive
\* items of each column and the parser's _postdots.
VARIABLES lpc, lchart, ltrans, postdots, lci, lsi, lcursor, lstates,
          lstarts, lraised, lyielded, ldiverged

\* The number of parse calls made on that LeoParser object, and beside it a
\* LeoParser object made for the call and given the same text: its
\* _postdots and what its parse_on yields (its chart is the same up to
\* parse_forest, _postdots being written only while the chart is filled).
VARIABLES calls, fpostdots, fyielded, fdiverged

evars == <<gi, text, pc, chart, ci, si, cursor, states, starts, raised,
           yielded, diverged>>

lvars == <<lpc, lchart, ltrans, postdots, lci, lsi, lcursor, lstates,
           lstarts, lraised, lyielded, ldiverged,
           calls, fpostdots, fyielded, fdiverged>>

\* The compiled GLL driver run on the same input: the position gpc, the
\* GLLStructuredStackP object, the driver's registers, what recognize_on
\* returned or raised, and the tree parse_on returned.
VARIABLES gpc, parser, L, stack_top, cur_idx, cur_sppf_node, goutcome, gtree

\* The order in which descriptors are taken from the queue ("fifo", as
\* next_thread takes them, or "any"), and the parser object and outcome the
\* FIFO parse of the same input left behind.
VARIABLES gmode, fifo

ovars == <<gmode, fifo>>

gvars == <<gpc, parser, L, stack_top, cur_idx, cur_sppf_node, goutcome, gtree,
           ovars>>

\* An EnhancedExtractor over the Earley forest: its position xpc, my_forest,
\* the chain of ChoiceNode records from self.choices along next, what the
\* last extract_a_tree call returned, the trees returned so far, and the
\* number of calls that returned None.
VARIABLES xpc, my_forest, choices, xreturned, xtrees, xnones

exvars == <<xpc, my_forest, choices, xreturned, xtrees, xnones>>

\* An EnhancedExtractor over the SPPF of the GLL parser: the same.
VARIABLES gxpc, gchoices, gxreturned, gxtrees, gxnones

gxvars == <<gxpc, gchoices, gxreturned, gxtrees, gxnones>>

\* The hand-written recognizers of <S> -> <A>, <A> -> <A> a | epsilon: their
\* input, then the GLLG1Recognizer run: the position g1pc, the
\* GLLStructuredStack object, the loop's L, stack_top and cur_idx, and what
\* recognize_on returned.
VARIABLES rtext, g1pc, g1, g1L, g1top, g1idx, g1out

g1vars == <<g1pc, g1, g1L, g1top, g1idx, g1out>>

\* The NaiveThreadedRecognizer run on the same input: the position npc,
\* the threads of the CallStack object, the loop's L, stack_top (the frames
\* from the top down to ('L0', 0), each the 'previous' of the one before)
\* and cur_idx, self.count, the max_count given, and what recognize_on
\* returned.
VARIABLES npc, threads, nL, ntop, nidx, count, max_count, nout

nvars == <<npc, threads, nL, ntop, nidx, count, max_count, nout>>

\* A call nullable(g) on its own: the argument kg, the position kpc, and
\* the locals nullable_keys, unprocessed and g_cur of the call.
VARIABLES kg, kpc, knullable_keys, kunprocessed, kg_cur

kvars == <<kg, kpc, knullable_keys, kunprocessed, kg_cur>>

rvars == <<rtext, g1vars, nvars, kvars>>

vars == <<evars, lvars, gvars, exvars, gxvars, rvars>>

not_earley == <<lvars, gvars, exvars, gxvars, rvars>>

not_leo == <<evars, gvars, exvars, gxvars, rvars>>

not_gll == <<evars, lvars, exvars, gxvars, rvars, ovars>>

parsers == <<evars, lvars, gvars, exvars, gxvars>>

\* Mutant: a record with no choice left from the start.
ChoiceNode_empty(total) == [chosen |-> 0, total |-> 0]

\* ChoiceNode(parent, total); the parent is the record before it in the chain.
ChoiceNode(total) == [chosen |-> 0, total |-> total]

\* The labels the driver jumps to: 'L0', 'L_', a nonterminal, or a slot
\* (key, n_alt, r_pos) of the grammar.
L0 == [k |-> "L0", X |-> "", alt |-> 0, dot |-> 0]

L_ == [k |-> "L_", X |-> "", alt |-> 0, dot |-> 0]

nt_label(X) == [k |-> "nt", X |-> X, alt |-> 0, dot |-> 0]

slot(X, n_alt, r_pos) == [k |-> "slot", X |-> X, alt |-> n_alt, dot |-> r_pos]

\* The GSS node labelled my_label = (L, index).
GSSNode(lbl, idx) == [L |-> lbl, idx |-> idx]

stack_bottom == GSSNode(L0, 0)

\* An SPPF node, named by its key (label, j, i) in SPPF_nodes; the label
\* is a string, None, a slot, or ('P', slot, k) for a packed node.
str_label(x) == [k |-> "str", X |-> x, alt |-> 0, dot |-> 0, pk |-> 0]

None_label == [k |-> "None", X |-> "", alt |-> 0, dot |-> 0, pk |-> 0]

slot_label(s) == [k |-> "slot", X |-> s.X, alt |-> s.alt, dot |-> s.dot, pk |-> 0]

P_label(s, k) == [k |-> "P", X |-> s.X, alt |-> s.alt, dot |-> s.dot, pk |-> k]

SPPFNode(lbl, j, i) == [lbl |-> lbl, j |-> j, i |-> i]

\* GLLStructuredStackP.initialize(input_str): U has one list per index
\* 0..m, the GSS holds the bottom node, nothing else exists yet.
initialize(input_str) ==
  [m |-> Len(input_str),
   graph |-> (stack_bottom :> <<>>),
   P |-> (stack_bottom :> <<>>),
   threads |-> <<>>,
   U |-> [j \in 1..(Len(input_str) + 1) |-> {}],
   SPPF_nodes |-> <<>>,
   err |-> "none"]

grammar == Grammars[gi].g
start_symbol == Grammars[gi].start
epsilon == nullable(grammar)

\* Column.letter of column c: None for column 0.
letter(txt, c) == IF c = 0 THEN None ELSE txt[c]

\* chart_parse before fill_chart: one column per token and column 0,
\* column 0 seeded with every alternative of the start symbol.
chart_parse(g, txt, start) ==
  [c \in 1..(Len(txt) + 1) |->
     IF c = 1
     THEN add_all(<<>>, Map(LAMBDA alt : State(start, alt, 0, 0), g[start]))
     ELSE <<>>]

predict(g, eps, col, c, sym, state) ==
  LET col1 == add_all(col, Map(LAMBDA alt : State(sym, alt, 0, c), g[sym]))
  IN IF sym \in eps THEN add(col1, advance(state)) ELSE col1

\* Mutant: the token read is not compared with the symbol at the dot.
scan_any(col, col_letter, state, sym) == add(col, advance(state))

scan(col, col_letter, state, sym) ==
  IF sym = col_letter THEN add(col, advance(state)) ELSE col

parent_states(ch, state) ==
  SelectSeq(ch[state.s + 1], LAMBDA st : at_dot(st) = state.name)

\* complete adding the advanced parents to the column the state started in.
earley_complete_at_start(ch, c, state) ==
  [ch EXCEPT ![state.s + 1] = add_all(@, Map(advance, parent_states(ch, state)))]

earley_complete(ch, c, state) ==
  [ch EXCEPT ![c + 1] = add_all(@, Map(advance, parent_states(ch, state)))]

cur_state == chart[ci + 1][si]

in_column == pc = "fill" /\ si <= Len(chart[ci + 1])

\* GLLStructuredStack.initialize(input_str): m counts the end marker, the
\* GSS holds the node ('L0', 0), U has m + 1 lists.
g1_initialize(input_str) ==
  [m |-> Len(input_str) + 1,
   graph |-> (stack_bottom :> <<>>),
   P |-> (stack_bottom :> <<>>),
   threads |-> <<>>,
   U |-> [j \in 1..(Len(input_str) + 2) |-> {}]]

\* max_count of NaiveThreadedRecognizer.recognize_on when none is given,
\* and the budgets tried.
default_max_count == 1000

Budgets == {1, 10, 100, default_max_count}

\* No call of the hand-written recognizers made yet.
recognizers_idle ==
  /\ g1pc = "idle"
  /\ g1 = g1_initialize(<<>>)
  /\ g1L = L0
  /\ g1top = stack_bottom
  /\ g1idx = 0
  /\ g1out = "none"
  /\ npc = "idle"
  /\ threads = <<>>
  /\ nL = L0
  /\ ntop = <<stack_bottom>>
  /\ nidx = 0
  /\ count = 0
  /\ nout = "none"

\* What a parse leaves behind: the verdict and, when recognize_on returned,
\* the SPPF nodes each with the set of its children and the GSS nodes each
\* with the set of its edges; an exception leaves the exception.
gll_result(p, outcome) ==
  IF outcome \in {"accept", "reject"}
  THEN [verdict |-> outcome,
        nodes |-> [n \in DOMAIN p.SPPF_nodes |-> Range(p.SPPF_nodes[n])],
        edges |-> [v \in DOMAIN p.graph |-> Range(p.graph[v])]]
  ELSE [verdict |-> outcome, nodes |-> <<>>, edges |-> <<>>]

no_result == [parser |-> initialize(<<>>), outcome |-> "none"]

\* No call of nullable on its own made yet.
nullable_idle ==
  /\ kg = [keys |-> <<>>, alts |-> <<>>]
  /\ kpc = "idle"
  /\ knullable_keys = {}
  /\ kunprocessed = <<>>
  /\ kg_cur = <<>>

InitParsers ==
  /\ gmode = "fifo"
  /\ fifo = no_result
  /\ gi \in 1..Len(Grammars)
  /\ text \in Texts(Grammars[gi].sigma, MaxLen)
  /\ pc = "fill"
  /\ chart = chart_parse(grammar, text, start_symbol)
  /\ ci = 0
  /\ si = 1
  /\ cursor = -1
  /\ states = <<>>
  /\ starts = <<>>
  /\ raised = "none"
  /\ yielded = <<>>
  /\ diverged = FALSE
  /\ lpc = "idle"
  /\ lchart = <<>>
  /\ ltrans = <<>>
  /\ postdots = <<>>
  /\ lci = 0
  /\ lsi = 1
  /\ lcursor = -1
  /\ lstates = <<>>
  /\ lstarts = <<>>
  /\ lraised = "none"
  /\ lyielded = <<>>
  /\ ldiverged = FALSE
  /\ calls = 1
  /\ fpostdots = <<>>
  /\ fyielded = <<>>
  /\ fdiverged = FALSE
  /\ gpc = "idle"
  /\ parser = initialize(<<>>)
  /\ L = L0
  /\ stack_top = stack_bottom
  /\ cur_idx = 0
  /\ cur_sppf_node = SPPFNode(str_label("$"), 0, 0)
  /\ goutcome = "none"
  /\ gtree = <<>>
  /\ xpc = "idle"
  /\ my_forest = [name |-> "", paths |-> <<>>]
  /\ choices = <<ChoiceNode(1)>>
  /\ xreturned = "nothing"
  /\ xtrees = <<>>
  /\ xnones = 0
  /\ gxpc = "idle"
  /\ gchoices = <<ChoiceNode(1)>>
  /\ gxreturned = "nothing"
  /\ gxtrees = <<>>
  /\ gxnones = 0

Init ==
  /\ InitParsers
  /\ rtext = <<>>
  /\ max_count = default_max_count
  /\ recognizers_idle
  /\ nullable_idle

results_unchanged ==
  UNCHANGED <<cursor, states, starts, raised, yielded, diverged, not_earley>>

\* fill_chart, a finished state: complete.
Complete ==
  /\ in_column
  /\ finished(cur_state)
  /\ chart' = earley_complete(chart, ci, cur_state)
  /\ si' = si + 1
  /\ UNCHANGED <<gi, text, pc, ci>>
  /\ results_unchanged

\* fill_chart, a nonterminal of the grammar at the dot: predict.
Predict ==
  /\ in_column
  /\ ~finished(cur_state)
  /\ at_dot(cur_state) \in DOMAIN grammar
  /\ chart' = [chart EXCEPT ![ci + 1] =
                 predict(grammar, epsilon, @, ci, at_dot(cur_state), cur_state)]
  /\ si' = si + 1
  /\ UNCHANGED <<gi, text, pc, ci>>
  /\ results_unchanged

\* fill_chart, any other symbol at the dot: scan into the next column.
Scan ==
  /\ in_column
  /\ ~finished(cur_state)
  /\ at_dot(cur_state) \notin DOMAIN grammar
  /\ ci + 1 < Len(chart)
  /\ chart' = [chart EXCEPT ![ci + 2] =
                 scan(@, letter(text, ci + 1), cur_state, at_dot(cur_state))]
  /\ si' = si + 1
  /\ UNCHANGED <<gi, text, pc, ci>>
  /\ results_unchanged

\* fill_chart, a terminal at the dot in the last column: continue.
ScanPastEnd ==
  /\ in_column
  /\ ~finished(cur_state)
  /\ at_dot(cur_state) \notin DOMAIN grammar
  /\ ci + 1 >= Len(chart)
  /\ si' = si + 1
  /\ UNCHANGED <<gi, text, pc, chart, ci>>
  /\ results_unchanged

\* fill_chart, the column's list is exhausted: the next column.
NextColumn ==
  /\ pc = "fill"
  /\ si > Len(chart[ci + 1])
  /\ ci + 1 < Len(chart)
  /\ ci' = ci + 1
  /\ si' = 1
  /\ UNCHANGED <<gi, text, pc, chart>>
  /\ results_unchanged

\* The start items of a column, as parse_prefix selects them.
start_states(g, start, col) ==
  SelectSeq(col, LAMBDA st :
    /\ st.name = start
    /\ \E a \in 1..Len(g[start]) : g[start][a] = st.expr
    /\ st.s = 0)

\* parse_prefix after chart_parse: the last column holding a start item.
prefix_col(g, start, ch) ==
  LET hits == {c \in 0..(Len(ch) - 1) : start_states(g, start, ch[c + 1]) # <<>>}
  IN IF hits = {} THEN -1 ELSE CHOOSE c \in hits : \A h \in hits : h <= c

parse_prefix ==
  /\ pc = "fill"
  /\ si > Len(chart[ci + 1])
  /\ ci + 1 >= Len(chart)
  /\ cursor' = prefix_col(grammar, start_symbol, chart)
  /\ states' = IF cursor' = -1 THEN <<>>
               ELSE start_states(grammar, start_symbol, chart[cursor' + 1])
  /\ pc' = "prefix"
  /\ UNCHANGED <<gi, text, chart, ci, si, starts, raised, yielded, diverged>>
  /\ UNCHANGED not_earley

\* recognize_on after parse_prefix.
recognize_on ==
  /\ pc = "prefix"
  /\ starts' = SelectSeq(states, finished)
  /\ raised' = IF cursor < Len(text) \/ starts' = <<>> THEN "SyntaxError" ELSE "none"
  /\ pc' = "recognized"
  /\ UNCHANGED <<gi, text, chart, ci, si, cursor, states, yielded, diverged>>
  /\ UNCHANGED not_earley

----------------------------------------------------------------------------
(* Earley forest and trees *)

\* Concatenation of a sequence of sequences.
RECURSIVE Flatten(_)
Flatten(ss) == IF ss = <<>> THEN <<>> ELSE Head(ss) \o Flatten(Tail(ss))

Reverse(s) == [k \in 1..Len(s) |-> s[Len(s) + 1 - k]]

\* One element of a parse path: (state, 'n') for the finished item st found
\* in column e, (var, 't') for the token var read into column e.
path_n(st, e) == [k |-> "n", name |-> st.name, st |-> st, e |-> e]
path_t(var, e) == [k |-> "t", name |-> var, st |-> State(var, <<>>, 0, e - 1), e |-> e]

\* Mutant: every item named var counts, finished or not.
named_any(col, var) == SelectSeq(col, LAMBDA s : s.name = var)

\* parse_paths: the finished items named var of a column.
finished_named(col, var) ==
  SelectSeq(col, LAMBDA s : finished(s) /\ s.name = var)

RECURSIVE parse_paths(_, _, _, _, _, _)
parse_paths(g, ch, txt, named_expr, frm, til) ==
  LET var == named_expr[Len(named_expr)]
      expr == SubSeq(named_expr, 1, Len(named_expr) - 1)
      found ==
        IF var \notin DOMAIN g
        THEN IF til > 0 /\ letter(txt, til) = var
             THEN << [el |-> path_t(var, til), start |-> til - 1] >>
             ELSE <<>>
        ELSE Map(LAMBDA s : [el |-> path_n(s, til), start |-> s.s],
                 finished_named(ch[til + 1], var))
      paths(x) ==
        IF expr = <<>>
        THEN IF x.start = frm THEN << <<x.el>> >> ELSE <<>>
        ELSE Map(LAMBDA r : <<x.el>> \o r,
                 parse_paths(g, ch, txt, expr, frm, x.start))
  IN Flatten(Map(paths, found))

\* Mutant: the paths are left in the right-to-left order of parse_paths.
parse_forest_unreversed(g, ch, txt, st, e) ==
  [name |-> st.name,
   paths |-> IF st.expr # <<>>
             THEN parse_paths(g, ch, txt, st.expr, st.s, e)
             ELSE <<>>]

\* _parse_forest: (name, paths) of one item st of column e.
parse_forest_1(g, ch, txt, st, e) ==
  [name |-> st.name,
   paths |-> IF st.expr # <<>>
             THEN Map(Reverse, parse_paths(g, ch, txt, st.expr, st.s, e))
             ELSE <<>>]

\* parse_forest: the paths of all the given items of column e under one name.
parse_forest(g, ch, txt, sts, e) ==
  [name |-> sts[1].name,
   paths |-> Flatten(Map(LAMBDA st : parse_forest_1(g, ch, txt, st, e).paths, sts))]

\* itertools.product of a sequence of sequences, last position fastest.
RECURSIVE product(_)
product(lists) ==
  IF lists = <<>> THEN << <<>> >>
  ELSE LET rest == product(Tail(lists))
       IN Flatten(Map(LAMBDA x : Map(LAMBDA r : <<x>> \o r, rest), Head(lists)))

\* A derivation tree is <<symbol, children>>.
\* extract_trees is a generator: trees is what it yields, in order; ok is
\* FALSE when it then dies of unbounded recursion (a forest node below
\* itself: itertools.product exhausts each child generator before the
\* first tuple, and the child generator of a node in anc never ends).
RECURSIVE extract_trees(_, _, _, _, _)
RECURSIVE trees_of_paths(_, _, _, _, _, _, _)

child_trees(g, ch, txt, el, anc) ==
  IF el.k = "t" THEN [trees |-> << <<el.name, <<>> >> >>, ok |-> TRUE]
  ELSE IF <<el.st, el.e>> \in anc THEN [trees |-> <<>>, ok |-> FALSE]
  ELSE extract_trees(g, ch, txt, parse_forest(g, ch, txt, <<el.st>>, el.e),
                     anc \cup {<<el.st, el.e>>})

trees_of_paths(g, ch, txt, name, paths, anc, acc) ==
  IF paths = <<>> THEN [trees |-> acc, ok |-> TRUE]
  ELSE LET path == Head(paths)
           ptrees == [k \in 1..Len(path) |-> child_trees(g, ch, txt, path[k], anc)]
       IN IF \E k \in 1..Len(path) : ~ptrees[k].ok
          THEN [trees |-> acc, ok |-> FALSE]
          ELSE trees_of_paths(g, ch, txt, name, Tail(paths), anc,
                 acc \o Map(LAMBDA p : <<name, p>>,
                            product(Map(LAMBDA r : r.trees, ptrees))))

extract_trees(g, ch, txt, forest_node, anc) ==
  IF forest_node.paths = <<>>
  THEN [trees |-> << <<forest_node.name, <<>> >> >>, ok |-> TRUE]
  ELSE trees_of_paths(g, ch, txt, forest_node.name, forest_node.paths, anc, <<>>)

RECURSIVE tree_to_str(_)
tree_to_str(tree) ==
  IF is_nt(tree[1]) THEN Flatten(Map(tree_to_str, tree[2])) ELSE <<tree[1]>>

\* parse_on after recognize_on returned: every tree the generator yields.
parse_on ==
  /\ pc = "recognized"
  /\ raised = "none"
  /\ LET r == extract_trees(grammar, chart, text,
                            parse_forest(grammar, chart, text, starts, cursor), {})
     IN /\ yielded' = r.trees
        /\ diverged' = ~r.ok
  /\ pc' = "parsed"
  /\ UNCHANGED <<gi, text, chart, ci, si, cursor, states, starts, raised>>
  /\ UNCHANGED not_earley

----------------------------------------------------------------------------
(* LeoParser: fill_chart with complete replaced by leo_complete *)

\* d[key] = value on a Python dict.
put(d, key, value) == (key :> value) @@ d

copy(st) == st

back(st) == TState(st.name, st.expr, st.dot - 1, st.s)

create_tstate(st) == TState(st.name, st.expr, st.dot, st.s)

\* uniq_postdot that never finds a deterministic parent: leo_complete then
\* always falls back to earley_complete.
uniq_postdot_none(ch, st_A) == [found |-> FALSE, st |-> st_A]

\* uniq_postdot, its write to _postdots left to get_top: the only item of
\* st_A's start column with the dot before st_A.name, if that dot is last.
uniq_postdot(ch, st_A) ==
  LET parents == SelectSeq(ch[st_A.s + 1],
                   LAMBDA s : s.expr # <<>> /\ at_dot(s) = st_A.name)
      matching_st_B == SelectSeq(parents, LAMBDA s : s.dot = Len(s.expr) - 1)
  IN IF Len(parents) > 1 \/ matching_st_B = <<>>
     THEN [found |-> FALSE, st |-> st_A]
     ELSE [found |-> TRUE, st |-> matching_st_B[1]]

\* get_top(state_A) on the chart ch, the transitives trans of the columns
\* and _postdots pd.  found tells a returned item (top) from None; err is
\* "RecursionError" when the call never returns (state_A's name and start
\* column come back in the descent, which depends on nothing else) and
\* "AssertionError" when add_transitive finds its key taken.
RECURSIVE get_top(_, _, _, _, _)
get_top(ch, trans, pd, state_A, seen) ==
  LET me == <<state_A.name, state_A.s>>
      u == uniq_postdot(ch, state_A)
      st_B_inc == u.st
      pd1 == IF u.found THEN put(pd, t_key(st_B_inc), state_A) ELSE pd
      t_name == st_B_inc.name
      e_col == state_A.s + 1
      none == [err |-> "none", found |-> FALSE, top |-> state_A,
               trans |-> trans, pd |-> pd1]
  IN IF me \in seen THEN [none EXCEPT !.err = "RecursionError"]
     ELSE IF ~u.found THEN none
     ELSE IF t_name \in DOMAIN trans[e_col]
     THEN [none EXCEPT !.found = TRUE, !.top = trans[e_col][t_name]]
     ELSE LET st_B == advance(st_B_inc)
              r == get_top(ch, trans, pd1, st_B, seen \cup {me})
              top == IF r.found THEN r.top ELSE st_B
          IN IF r.err # "none" THEN r
             ELSE IF t_name \in DOMAIN r.trans[e_col]
             THEN [r EXCEPT !.err = "AssertionError", !.found = FALSE]
             ELSE [err |-> "none", found |-> TRUE, top |-> create_tstate(top),
                   trans |-> [r.trans EXCEPT ![e_col] = put(@, t_name, create_tstate(top))],
                   pd |-> r.pd]

deterministic_reduction(ch, trans, pd, state) == get_top(ch, trans, pd, state, {})

leo_state == lchart[lci + 1][lsi]

leo_in_column == lpc = "fill" /\ lsi <= Len(lchart[lci + 1])

leo_results_unchanged ==
  UNCHANGED <<lcursor, lstates, lstarts, lyielded, ldiverged, calls, fyielded,
              fdiverged, not_leo>>

\* LeoParser(grammar).recognize_on(text, start) is called: chart_parse.
LeoStart ==
  /\ pc = "recognized"
  /\ lpc = "idle"
  /\ lpc' = "fill"
  /\ lchart' = chart_parse(grammar, text, start_symbol)
  /\ ltrans' = [c \in 1..(Len(text) + 1) |-> <<>>]
  /\ UNCHANGED <<postdots, fpostdots, lci, lsi, lraised>>
  /\ leo_results_unchanged

\* fill_chart, a finished state: leo_complete.
LeoComplete ==
  /\ leo_in_column
  /\ finished(leo_state)
  /\ LET detred == deterministic_reduction(lchart, ltrans, postdots, leo_state)
     IN /\ postdots' = detred.pd
        /\ fpostdots' = deterministic_reduction(lchart, ltrans, fpostdots, leo_state).pd
        /\ ltrans' = detred.trans
        /\ IF detred.err # "none"
           THEN /\ lraised' = detred.err
                /\ lpc' = "recognized"
                /\ UNCHANGED <<lchart, lsi>>
           ELSE /\ lchart' = IF detred.found
                             THEN [lchart EXCEPT ![lci + 1] = add(@, copy(detred.top))]
                             ELSE earley_complete(lchart, lci, leo_state)
                /\ lsi' = lsi + 1
                /\ UNCHANGED <<lraised, lpc>>
  /\ UNCHANGED lci
  /\ leo_results_unchanged

LeoPredict ==
  /\ leo_in_column
  /\ ~finished(leo_state)
  /\ at_dot(leo_state) \in DOMAIN grammar
  /\ lchart' = [lchart EXCEPT ![lci + 1] =
                  predict(grammar, epsilon, @, lci, at_dot(leo_state), leo_state)]
  /\ lsi' = lsi + 1
  /\ UNCHANGED <<lpc, ltrans, postdots, fpostdots, lci, lraised>>
  /\ leo_results_unchanged

LeoScan ==
  /\ leo_in_column
  /\ ~finished(leo_state)
  /\ at_dot(leo_state) \notin DOMAIN grammar
  /\ lci + 1 < Len(lchart)
  /\ lchart' = [lchart EXCEPT ![lci + 2] =
                  scan(@, letter(text, lci + 1), leo_state, at_dot(leo_state))]
  /\ lsi' = lsi + 1
  /\ UNCHANGED <<lpc, ltrans, postdots, fpostdots, lci, lraised>>
  /\ leo_results_unchanged

LeoScanPastEnd ==
  /\ leo_in_column
  /\ ~finished(leo_state)
  /\ at_dot(leo_state) \notin DOMAIN grammar
  /\ lci + 1 >= Len(lchart)
  /\ lsi' = lsi + 1
  /\ UNCHANGED <<lpc, lchart, ltrans, postdots, fpostdots, lci, lraised>>
  /\ leo_results_unchanged

LeoNextColumn ==
  /\ lpc = "fill"
  /\ lsi > Len(lchart[lci + 1])
  /\ lci + 1 < Len(lchart)
  /\ lci' = lci + 1
  /\ lsi' = 1
  /\ UNCHANGED <<lpc, lchart, ltrans, postdots, fpostdots, lraised>>
  /\ leo_results_unchanged

leo_parse_prefix ==
  /\ lpc = "fill"
  /\ lsi > Len(lchart[lci + 1])
  /\ lci + 1 >= Len(lchart)
  /\ lcursor' = prefix_col(grammar, start_symbol, lchart)
  /\ lstates' = IF lcursor' = -1 THEN <<>>
                ELSE start_states(grammar, start_symbol, lchart[lcursor' + 1])
  /\ lpc' = "prefix"
  /\ UNCHANGED <<lchart, ltrans, postdots, fpostdots, lci, lsi, lstarts, lraised,
                 lyielded, ldiverged, calls, fyielded, fdiverged, not_leo>>

leo_recognize_on ==
  /\ lpc = "prefix"
  /\ lstarts' = SelectSeq(lstates, finished)
  /\ lraised' = IF lcursor < Len(text) \/ lstarts' = <<>> THEN "SyntaxError" ELSE "none"
  /\ lpc' = "recognized"
  /\ UNCHANGED <<lchart, ltrans, postdots, fpostdots, lci, lsi, lcursor, lstates,
                 lyielded, ldiverged, calls, fyielded, fdiverged, not_leo>>

----------------------------------------------------------------------------
(* LeoParser forest: parse_forest expands a TState before walking it, so    *)
(* the chart grows while the trees are extracted.                           *)

\* expand_tstate(state, e) on the list col of column e; ok is FALSE when
\* the chain of _postdots comes back to a key (the call never returns).
RECURSIVE expand_tstate(_, _, _, _)
expand_tstate(col, pd, state, seen) ==
  IF t_key(state) \notin DOMAIN pd THEN [col |-> col, ok |-> TRUE]
  ELSE IF t_key(state) \in seen THEN [col |-> col, ok |-> FALSE]
  ELSE LET c_C == pd[t_key(state)]
       IN expand_tstate(add(col, advance(c_C)), pd, back(c_C),
                        seen \cup {t_key(state)})

\* LeoParser.parse_forest(chart, states), states being items of column e.
RECURSIVE leo_expand_all(_, _, _, _)
leo_expand_all(col, pd, sts, ok) ==
  IF sts = <<>> THEN [col |-> col, ok |-> ok]
  ELSE IF ~Head(sts).t THEN leo_expand_all(col, pd, Tail(sts), ok)
  ELSE LET x == expand_tstate(col, pd, back(Head(sts)), {})
       IN IF ~x.ok THEN x ELSE leo_expand_all(x.col, pd, Tail(sts), ok)

leo_parse_forest(g, ch, txt, pd, sts, e) ==
  LET x == leo_expand_all(ch[e + 1], pd, sts, TRUE)
      ch1 == [ch EXCEPT ![e + 1] = x.col]
  IN [node |-> parse_forest(g, ch1, txt, sts, e), ch |-> ch1, ok |-> x.ok]

\* forest(s, kind, chart) for every element of a path, left to right.
RECURSIVE leo_forests(_, _, _, _, _, _)
leo_forests(g, txt, pd, path, ch, acc) ==
  IF path = <<>> THEN [nodes |-> acc, ch |-> ch, ok |-> TRUE]
  ELSE LET el == Head(path)
       IN IF el.k = "t"
          THEN leo_forests(g, txt, pd, Tail(path), ch,
                           Append(acc, [name |-> el.name, paths |-> <<>>]))
          ELSE LET f == leo_parse_forest(g, ch, txt, pd, <<el.st>>, el.e)
               IN IF ~f.ok THEN [nodes |-> acc, ch |-> f.ch, ok |-> FALSE]
                  ELSE leo_forests(g, txt, pd, Tail(path), f.ch, Append(acc, f.node))

RECURSIVE leo_extract_trees(_, _, _, _, _, _)
RECURSIVE leo_trees_of_paths(_, _, _, _, _, _, _, _)
RECURSIVE leo_children(_, _, _, _, _, _, _, _)

\* The generators of a path's children, run one after the other.
leo_children(g, txt, pd, path, nodes, ch, anc, acc) ==
  IF path = <<>> THEN [ptrees |-> acc, ch |-> ch, ok |-> TRUE]
  ELSE LET el == Head(path)
           id == <<el.st, el.e>>
       IN IF el.k = "n" /\ id \in anc
          THEN [ptrees |-> acc, ch |-> ch, ok |-> FALSE]
          ELSE LET r == leo_extract_trees(g, txt, pd, Head(nodes), ch,
                                          IF el.k = "n" THEN anc \cup {id} ELSE anc)
               IN IF ~r.ok THEN [ptrees |-> acc, ch |-> r.ch, ok |-> FALSE]
                  ELSE leo_children(g, txt, pd, Tail(path), Tail(nodes), r.ch, anc,
                                    Append(acc, r.trees))

leo_trees_of_paths(g, txt, pd, name, paths, ch, anc, acc) ==
  IF paths = <<>> THEN [trees |-> acc, ch |-> ch, ok |-> TRUE]
  ELSE LET f == leo_forests(g, txt, pd, Head(paths), ch, <<>>)
           c == leo_children(g, txt, pd, Head(paths), f.nodes, f.ch, anc, <<>>)
       IN IF ~f.ok THEN [trees |-> acc, ch |-> f.ch, ok |-> FALSE]
          ELSE IF ~c.ok THEN [trees |-> acc, ch |-> c.ch, ok |-> FALSE]
          ELSE leo_trees_of_paths(g, txt, pd, name, Tail(paths), c.ch, anc,
                 acc \o Map(LAMBDA p : <<name, p>>, product(c.ptrees)))

leo_extract_trees(g, txt, pd, forest_node, ch, anc) ==
  IF forest_node.paths = <<>>
  THEN [trees |-> << <<forest_node.name, <<>> >> >>, ch |-> ch, ok |-> TRUE]
  ELSE leo_trees_of_paths(g, txt, pd, forest_node.name, forest_node.paths, ch, anc, <<>>)

\* LeoParser.parse_on after recognize_on returned.
leo_parse_on ==
  /\ lpc = "recognized"
  /\ lraised = "none"
  /\ LET f == leo_parse_forest(grammar, lchart, text, postdots, lstarts, lcursor)
         r == leo_extract_trees(grammar, text, postdots, f.node, f.ch, {})
     IN /\ lyielded' = IF f.ok THEN r.trees ELSE <<>>
        /\ ldiverged' = ~(f.ok /\ r.ok)
        /\ lchart' = IF f.ok THEN r.ch ELSE f.ch
  /\ LET f == leo_parse_forest(grammar, lchart, text, fpostdots, lstarts, lcursor)
         r == leo_extract_trees(grammar, text, fpostdots, f.node, f.ch, {})
     IN /\ fyielded' = IF f.ok THEN r.trees ELSE <<>>
        /\ fdiverged' = ~(f.ok /\ r.ok)
  /\ lpc' = "parsed"
  /\ UNCHANGED <<ltrans, postdots, fpostdots, lci, lsi, lcursor, lstates, lstarts,
                 lraised, calls, not_leo>>

\* The calls made on one LeoParser object.
MaxCalls == 2

\* parse_on(text2, start) is called on the same LeoParser object once the
\* call before has ended, text2 being at least as long as the text before
\* (an item _postdots kept from a longer text starts past the end of the
\* new chart, and parse_paths then raises IndexError from chart[til]).  An
\* EarleyParser is given text2 first, as it is given every input.
LeoParseAgain ==
  /\ lpc = "parsed" \/ (lpc = "recognized" /\ lraised = "SyntaxError")
  /\ calls < MaxCalls
  /\ calls' = calls + 1
  /\ \E text2 \in Texts(Grammars[gi].sigma, MaxLen) :
       /\ Len(text2) >= Len(text)
       /\ text' = text2
       /\ chart' = chart_parse(grammar, text2, start_symbol)
  /\ pc' = "fill"
  /\ ci' = 0
  /\ si' = 1
  /\ cursor' = -1
  /\ states' = <<>>
  /\ starts' = <<>>
  /\ raised' = "none"
  /\ yielded' = <<>>
  /\ diverged' = FALSE
  /\ lpc' = "idle"
  /\ lchart' = <<>>
  /\ ltrans' = <<>>
  /\ lci' = 0
  /\ lsi' = 1
  /\ lcursor' = -1
  /\ lstates' = <<>>
  /\ lstarts' = <<>>
  /\ lraised' = "none"
  /\ lyielded' = <<>>
  /\ ldiverged' = FALSE
  /\ fpostdots' = <<>>
  /\ fyielded' = <<>>
  /\ fdiverged' = FALSE
  /\ UNCHANGED <<gi, postdots, gvars, exvars, gxvars, rvars>>

LeoNext ==
  \/ LeoStart
  \/ LeoComplete
  \/ LeoPredict
  \/ LeoScan
  \/ LeoScanPastEnd
  \/ LeoNextColumn
  \/ leo_parse_prefix
  \/ leo_recognize_on
  \/ leo_parse_on

----------------------------------------------------------------------------
(* GLL: the structured stack with SPPF construction *)

\* symbols(grammar)[1]: the nonterminals that occur in some rule.
symbols_nonterminals(g) ==
  {t \in UNION {UNION {{g[k][a][c] : c \in 1..Len(g[k][a])} :
                         a \in 1..Len(g[k])} : k \in DOMAIN g} : is_nt(t)}

\* The nullable set of get_first_and_follow: rounds over the productions of
\* these nonterminals until nothing is added.
RECURSIVE gll_nullable_loop(_, _, _)
gll_nullable_loop(g, nonterminals, nullable_set) ==
  LET more == {k \in nonterminals :
                 \E a \in 1..Len(g[k]) :
                   \A c \in 1..Len(g[k][a]) : g[k][a][c] \in nullable_set}
  IN IF more \subseteq nullable_set THEN nullable_set
     ELSE gll_nullable_loop(g, nonterminals, nullable_set \cup more)

gll_nullable(g) == gll_nullable_loop(g, symbols_nonterminals(g), {})

is_non_nullable_alpha(g, alpha) ==
  IF Len(alpha) # 1 THEN FALSE
  ELSE IF ~is_nt(alpha[1]) THEN TRUE
  ELSE alpha[1] \notin gll_nullable(g)

\* I = input_str + '$', indexed from 0.
I_at(txt, idx) == IF idx < Len(txt) THEN txt[idx + 1] ELSE "$"

is_dummy(n) == n.lbl.k = "None" \/ (n.lbl.k = "str" /\ n.lbl.X = "$")

\* sppf_find_or_create that makes a new node whether or not the key has one.
sppf_find_or_create_fresh(p, n) ==
  [p EXCEPT !.SPPF_nodes = put(@, n, <<>>)]

sppf_find_or_create(p, n) ==
  IF n \in DOMAIN p.SPPF_nodes THEN p
  ELSE [p EXCEPT !.SPPF_nodes = put(@, n, <<>>)]

getNodeT(x_lbl, i) ==
  SPPFNode(x_lbl, i, IF x_lbl.k = "None" THEN i ELSE i + 1)

\* add_thread without the look-up in U[cur_idx].
add_thread_unchecked(p, lbl, st, idx, sppf_w) ==
  IF p.err # "none" THEN p
  ELSE IF idx > p.m THEN [p EXCEPT !.err = "IndexError"]
  ELSE [p EXCEPT !.U[idx + 1] = @ \cup {[L |-> lbl, st |-> st, w |-> sppf_w]},
                 !.threads = Append(@, [L |-> lbl, st |-> st,
                                        idx |-> idx, w |-> sppf_w])]

\* add_thread: U[cur_idx] raises IndexError outside 0..m.
add_thread(p, lbl, st, idx, sppf_w) ==
  IF p.err # "none" THEN p
  ELSE IF idx > p.m THEN [p EXCEPT !.err = "IndexError"]
  ELSE LET d == [L |-> lbl, st |-> st, w |-> sppf_w]
       IN IF d \in p.U[idx + 1] THEN p
          ELSE [p EXCEPT !.U[idx + 1] = @ \cup {d},
                         !.threads = Append(@, [L |-> lbl, st |-> st,
                                                idx |-> idx, w |-> sppf_w])]

\* getNodeP(X_rule_pos, sppf_w, sppf_z): the parser after it and the node
\* it returns.  not_dummy asserts that a left child is not the None dummy.
getNodeP(g, p, X_rule_pos, sppf_w, sppf_z) ==
  LET rule == g[X_rule_pos.X][X_rule_pos.alt + 1]
      alpha == SubSeq(rule, 1, X_rule_pos.dot)
      beta == SubSeq(rule, X_rule_pos.dot + 1, Len(rule))
      t == IF beta = <<>> THEN str_label(X_rule_pos.X) ELSE slot_label(X_rule_pos)
      k == sppf_z.j
      i == sppf_z.i
      not_dummy == ~(sppf_w.lbl.k = "str" /\ sppf_w.lbl.X = "$")
      j == IF not_dummy THEN sppf_w.j ELSE k
      children == IF not_dummy THEN <<sppf_w, sppf_z>> ELSE <<sppf_z>>
      y == SPPFNode(t, j, i)
      p1 == sppf_find_or_create(p, y)
      pn == SPPFNode(P_label(X_rule_pos, k), j, i)
      packed == \E c \in 1..Len(p1.SPPF_nodes[y]) :
                   p1.SPPF_nodes[y][c].lbl = P_label(X_rule_pos, k)
  IN IF p.err # "none" THEN [parser |-> p, node |-> sppf_z]
     ELSE IF is_non_nullable_alpha(g, alpha) /\ beta # <<>>
     THEN [parser |-> p, node |-> sppf_z]
     ELSE IF sppf_w.lbl.k = "None"
     THEN [parser |-> [p EXCEPT !.err = "AssertionError"], node |-> sppf_z]
     ELSE IF packed THEN [parser |-> p1, node |-> y]
     ELSE IF pn \in DOMAIN p1.SPPF_nodes
     THEN [parser |-> [p1 EXCEPT !.err = "AssertionError"], node |-> y]
     ELSE [parser |-> [p1 EXCEPT !.SPPF_nodes =
                         put([@ EXCEPT ![y] = Append(@, pn)], pn, children)],
           node |-> y]

\* fn_return, the loop over the children of stack_top from the c-th on.
RECURSIVE fn_return_children(_, _, _, _, _, _)
fn_return_children(g, p, st, idx, sppf_z, c) ==
  IF c > Len(p.graph[st]) \/ p.err # "none" THEN p
  ELSE LET edge == p.graph[st][c]
           r == getNodeP(g, p, st.L, edge.w, sppf_z)
       IN fn_return_children(g, add_thread(r.parser, st.L, edge.st, idx, r.node),
                             st, idx, sppf_z, c + 1)

fn_return(g, p, st, idx, sppf_z) ==
  IF st = stack_bottom THEN p
  ELSE fn_return_children(g, [p EXCEPT !.P[st] = Append(@, sppf_z)],
                          st, idx, sppf_z, 1)

\* register_return, the loop over the parsed indexes of v from the c-th on.
RECURSIVE register_return_parsed(_, _, _, _, _, _, _)
register_return_parsed(g, p, lbl, st, sppf_w, v, c) ==
  IF c > Len(p.P[v]) \/ p.err # "none" THEN p
  ELSE LET sppf_z == p.P[v][c]
           r == getNodeP(g, p, lbl, sppf_w, sppf_z)
           h_idx == sppf_z.i
       IN register_return_parsed(g, add_thread(r.parser, lbl, st, h_idx, r.node),
                                 lbl, st, sppf_w, v, c + 1)

\* gss.get that makes a new node whether or not the label has one.
gss_get_fresh(p, v) ==
  [p EXCEPT !.graph = put(@, v, <<>>), !.P = put(@, v, <<>>)]

gss_get(p, v) ==
  IF v \in DOMAIN p.graph THEN p
  ELSE [p EXCEPT !.graph = put(@, v, <<>>), !.P = put(@, v, <<>>)]

\* register_return that creates the edge and replays no pop through P.
register_return_no_replay(g, p, lbl, st, idx, sppf_w) ==
  LET v == GSSNode(lbl, idx)
      p1 == gss_get(p, v)
  IN IF \E c \in 1..Len(p1.graph[v]) : p1.graph[v][c] = [st |-> st, w |-> sppf_w]
     THEN p1
     ELSE [p1 EXCEPT !.graph[v] = Append(@, [st |-> st, w |-> sppf_w])]

register_return(g, p, lbl, st, idx, sppf_w) ==
  LET v == GSSNode(lbl, idx)
      p1 == gss_get(p, v)
      v_to_u_labeled_w == \E c \in 1..Len(p1.graph[v]) :
                            p1.graph[v][c] = [st |-> st, w |-> sppf_w]
  IN IF v_to_u_labeled_w THEN p1
     ELSE register_return_parsed(g,
            [p1 EXCEPT !.graph[v] = Append(@, [st |-> st, w |-> sppf_w])],
            lbl, st, sppf_w, v, 1)

----------------------------------------------------------------------------
(* The driver compile_grammar generates: one action per branch of its loop *)

end_rule == SPPFNode(str_label("$"), 0, 0)

\* What a branch leaves behind: the next label, or the exception that
\* ended recognize_on.
gll_goto(p, lbl) ==
  /\ parser' = p
  /\ IF p.err = "none"
     THEN /\ L' = lbl
          /\ UNCHANGED <<gpc, goutcome>>
     ELSE /\ gpc' = "done"
          /\ goutcome' = p.err
          /\ UNCHANGED L

cur_rule == grammar[L.X][L.alt + 1]

\* The compiled recognize_on(text, start_symbol) is called.
GLLStart ==
  /\ pc = "recognized"
  /\ gpc = "idle"
  /\ gpc' = "run"
  /\ parser' = sppf_find_or_create(initialize(text), end_rule)
  /\ L' = nt_label(start_symbol)
  /\ stack_top' = stack_bottom
  /\ cur_idx' = 0
  /\ cur_sppf_node' = end_rule
  /\ UNCHANGED <<goutcome, gtree, not_gll>>

\* L == 'L0' with descriptors left: next_thread.
GLL_L0_next_thread ==
  /\ gpc = "run"
  /\ L = L0
  /\ parser.threads # <<>>
  /\ LET t == Head(parser.threads)
     IN /\ L' = t.L
        /\ stack_top' = t.st
        /\ cur_idx' = t.idx
        /\ cur_sppf_node' = t.w
  /\ parser' = [parser EXCEPT !.threads = Tail(@)]
  /\ UNCHANGED <<gpc, goutcome, gtree, not_gll>>

\* L == 'L0' with no descriptor left: the parser object or [].
GLL_L0_return ==
  /\ gpc = "run"
  /\ L = L0
  /\ parser.threads = <<>>
  /\ gpc' = "done"
  /\ goutcome' = IF SPPFNode(str_label(start_symbol), 0, parser.m)
                      \in DOMAIN parser.SPPF_nodes
                 THEN "accept" ELSE "reject"
  /\ UNCHANGED <<parser, L, stack_top, cur_idx, cur_sppf_node, gtree, not_gll>>

\* L == 'L_': pop.
GLL_L_pop ==
  /\ gpc = "run"
  /\ L = L_
  /\ gll_goto(fn_return(grammar, parser, stack_top, cur_idx, cur_sppf_node), L0)
  /\ UNCHANGED <<stack_top, cur_idx, cur_sppf_node, gtree, not_gll>>

\* L == a nonterminal (compile_def): one descriptor per alternative, each
\* with end_rule as its SPPF node; a label no branch matches is assert False.
RECURSIVE add_alternatives(_, _, _, _, _)
add_alternatives(p, key, n, st, idx) ==
  IF n = 0 THEN p
  ELSE add_thread(add_alternatives(p, key, n - 1, st, idx),
                  slot(key, n - 1, 0), st, idx, end_rule)

GLL_def ==
  /\ gpc = "run"
  /\ L.k = "nt"
  /\ IF L.X \in DOMAIN grammar
     THEN gll_goto(add_alternatives(parser, L.X, Len(grammar[L.X]), stack_top, cur_idx), L0)
     ELSE gll_goto([parser EXCEPT !.err = "AssertionError"], L0)
  /\ UNCHANGED <<stack_top, cur_idx, cur_sppf_node, gtree, not_gll>>

\* L == (key, n_alt, 0) of an empty rule (compile_epsilon).
GLL_epsilon ==
  /\ gpc = "run"
  /\ L.k = "slot"
  /\ cur_rule = <<>>
  /\ LET right_sppf_child == getNodeT(None_label, cur_idx)
         r == getNodeP(grammar, sppf_find_or_create(parser, right_sppf_child),
                       L, cur_sppf_node, right_sppf_child)
     IN /\ gll_goto(r.parser, L_)
        /\ cur_sppf_node' = r.node
  /\ UNCHANGED <<stack_top, cur_idx, gtree, not_gll>>

\* L == a slot before a terminal (compile_terminal); I[cur_idx] raises
\* IndexError past the end marker.
GLL_terminal ==
  /\ gpc = "run"
  /\ L.k = "slot"
  /\ L.dot < Len(cur_rule)
  /\ ~is_nt(cur_rule[L.dot + 1])
  /\ IF cur_idx > parser.m
     THEN /\ gll_goto([parser EXCEPT !.err = "IndexError"], L0)
          /\ UNCHANGED <<cur_idx, cur_sppf_node>>
     ELSE IF I_at(text, cur_idx) = cur_rule[L.dot + 1]
     THEN LET right_sppf_child == getNodeT(str_label(I_at(text, cur_idx)), cur_idx)
              Lnxt == slot(L.X, L.alt, L.dot + 1)
              r == getNodeP(grammar, sppf_find_or_create(parser, right_sppf_child),
                            Lnxt, cur_sppf_node, right_sppf_child)
          IN /\ gll_goto(r.parser, Lnxt)
             /\ cur_idx' = cur_idx + 1
             /\ cur_sppf_node' = r.node
     ELSE /\ gll_goto(parser, L0)
          /\ UNCHANGED <<cur_idx, cur_sppf_node>>
  /\ UNCHANGED <<stack_top, gtree, not_gll>>

\* L == a slot before a nonterminal (compile_nonterminal): push.
GLL_nonterminal ==
  /\ gpc = "run"
  /\ L.k = "slot"
  /\ L.dot < Len(cur_rule)
  /\ is_nt(cur_rule[L.dot + 1])
  /\ gll_goto(register_return(grammar, parser, slot(L.X, L.alt, L.dot + 1),
                              stack_top, cur_idx, cur_sppf_node),
              nt_label(cur_rule[L.dot + 1]))
  /\ stack_top' = GSSNode(slot(L.X, L.alt, L.dot + 1), cur_idx)
  /\ UNCHANGED <<cur_idx, cur_sppf_node, gtree, not_gll>>

\* L == the slot at the end of a non-empty rule.
GLL_end_of_rule ==
  /\ gpc = "run"
  /\ L.k = "slot"
  /\ cur_rule # <<>>
  /\ L.dot = Len(cur_rule)
  /\ L' = L_
  /\ UNCHANGED <<gpc, parser, stack_top, cur_idx, cur_sppf_node, goutcome,
                 gtree, not_gll>>

----------------------------------------------------------------------------
(* SPPF to_tree: random.choice at a symbol node is any of its children *)

\* How many times more a symbol node may occur below itself in the trees
\* enumerated for a cyclic SPPF.
MaxUnfold == 1

\* The concatenations of one list from each set, in order.
RECURSIVE concat_all(_)
concat_all(sets) ==
  IF sets = <<>> THEN {<<>>}
  ELSE {a \o b : a \in Head(sets), b \in concat_all(Tail(sets))}

Count(x, s) == Cardinality({c \in 1..Len(s) : s[c] = x})

\* to_tree_(node): the lists of trees it can return; above holds the
\* symbol nodes on the way down from the root.
RECURSIVE to_tree_(_, _, _)
to_tree_(nodes, n, above) ==
  IF n.lbl.k = "str" /\ ~is_dummy(n)
  THEN IF nodes[n] = <<>> THEN {<< <<n.lbl.X, <<>> >> >>}
       ELSE IF Count(n, above) > MaxUnfold THEN {}
       ELSE UNION {{<< <<n.lbl.X, kids>> >> :
                      kids \in to_tree_(nodes, nodes[n][c], Append(above, n))} :
                   c \in 1..Len(nodes[n])}
  ELSE concat_all([c \in 1..Len(nodes[n]) |-> to_tree_(nodes, nodes[n][c], above)])

root == SPPFNode(str_label(start_symbol), 0, parser.m)

to_tree == {ts[1] : ts \in to_tree_(parser.SPPF_nodes, root, <<>>)}

\* The compiled parse_on after its recognize_on returned: [p.to_tree()],
\* p being the parser object, or [] which has no to_tree.
gll_parse_on ==
  /\ gpc = "done"
  /\ goutcome \in {"accept", "reject"}
  /\ IF goutcome = "accept"
     THEN /\ \E t \in to_tree : gtree' = t
          /\ gpc' = "parsed"
          /\ UNCHANGED goutcome
     ELSE /\ goutcome' = "AttributeError"
          /\ gpc' = "raised"
          /\ UNCHANGED gtree
  /\ UNCHANGED <<parser, L, stack_top, cur_idx, cur_sppf_node, not_gll>>

\* The longest text parsed in every order.
MaxOrderLen == 1

\* The same input is parsed again by a driver that takes any queued
\* descriptor where next_thread takes the first.
GLL_any_order ==
  /\ gpc = "done"
  /\ gmode = "fifo"
  /\ Len(text) <= MaxOrderLen
  /\ gmode' = "any"
  /\ fifo' = [parser |-> parser, outcome |-> goutcome]
  /\ gpc' = "run"
  /\ parser' = sppf_find_or_create(initialize(text), end_rule)
  /\ L' = nt_label(start_symbol)
  /\ stack_top' = stack_bottom
  /\ cur_idx' = 0
  /\ cur_sppf_node' = end_rule
  /\ goutcome' = "none"
  /\ UNCHANGED <<gtree, evars, lvars, exvars, gxvars, rvars>>

\* L == 'L0' with descriptors left, any of them taken.
GLL_L0_any_thread ==
  /\ gpc = "run"
  /\ gmode = "any"
  /\ L = L0
  /\ \E k \in 1..Len(parser.threads) :
       LET t == parser.threads[k]
       IN /\ L' = t.L
          /\ stack_top' = t.st
          /\ cur_idx' = t.idx
          /\ cur_sppf_node' = t.w
          /\ parser' = [parser EXCEPT !.threads =
                          SubSeq(@, 1, k - 1) \o SubSeq(@, k + 1, Len(@))]
  /\ UNCHANGED <<gpc, goutcome, gtree, not_gll>>

\* recognize_on: the driver loop, label by label.
GLLDriver ==
  \/ GLLStart
  \/ GLL_L0_next_thread
  \/ GLL_L0_return
  \/ GLL_L_pop
  \/ GLL_def
  \/ GLL_epsilon
  \/ GLL_terminal
  \/ GLL_nonterminal
  \/ GLL_end_of_rule

GLLNext ==
  \/ GLLDriver
  \/ gll_parse_on

----------------------------------------------------------------------------
(* EnhancedExtractor over the Earley forest *)

\* Maximal number of extract_a_tree calls that return None.
MaxNone == 2

\* A call of the caller starts only when no other call is running.
in_call == pc \in {"fill", "prefix"} \/ lpc \in {"fill", "prefix"} \/ gpc = "run"

choice_finished(c) == c.chosen >= c.total

\* ChoiceNode.increment on the k-th record of the chain: its next becomes
\* None, and a finished record hands the increment to its parent.
RECURSIVE increment(_, _)
increment(chain, k) ==
  LET cut == [SubSeq(chain, 1, k) EXCEPT ![k].chosen = @ + 1]
  IN IF choice_finished(cut[k]) /\ k > 1 THEN increment(cut, k - 1) ELSE cut

\* Mutant: the first element whatever the record says.
choose_path_first(arr, chain, k) ==
  LET made == IF Len(chain) > k THEN chain ELSE Append(chain, ChoiceNode(Len(arr)))
  IN [none |-> FALSE, el |-> arr[1], chain |-> made, k |-> k + 1]

\* choose_path(arr, choices), choices being the k-th record: none tells
\* the (None, None, None, choices.next) return; el is arr[next_choice].
choose_path(arr, chain, k) ==
  LET made == IF Len(chain) > k THEN chain ELSE Append(chain, ChoiceNode(Len(arr)))
  IN IF Len(chain) > k /\ choice_finished(chain[k + 1])
     THEN [none |-> TRUE, el |-> arr[1], chain |-> chain, k |-> k + 1]
     ELSE [none |-> FALSE, el |-> arr[made[k + 1].chosen + 1],
           chain |-> made, k |-> k + 1]

\* extract_a_node(forest_node, seen, choices): none tells a None tree;
\* chain and k are the chain afterwards and the record returned with it.
RECURSIVE extract_a_node(_, _, _, _, _, _, _)
RECURSIVE extract_child_nodes(_, _, _, _, _, _, _, _)

extract_child_nodes(g, ch, txt, cur_path, seen, chain, k, child_nodes) ==
  IF cur_path = <<>>
  THEN [none |-> FALSE, nodes |-> child_nodes, chain |-> chain, k |-> k]
  ELSE LET el == Head(cur_path)
           nid == <<el.st.name, el.st.s, el.e>>
           r == extract_a_node(g, ch, txt, parse_forest(g, ch, txt, <<el.st>>, el.e),
                               seen \cup {nid}, chain, k)
       IN IF el.k = "t"
          THEN extract_child_nodes(g, ch, txt, Tail(cur_path), seen, chain, k,
                                   Append(child_nodes, <<el.name, <<>> >>))
          ELSE IF nid \in seen
          THEN [none |-> TRUE, nodes |-> child_nodes, chain |-> chain, k |-> k]
          ELSE IF r.none
          THEN [none |-> TRUE, nodes |-> child_nodes, chain |-> r.chain, k |-> r.k]
          ELSE extract_child_nodes(g, ch, txt, Tail(cur_path), seen, r.chain, r.k,
                                   Append(child_nodes, r.tree))

extract_a_node(g, ch, txt, forest_node, seen, chain, k) ==
  IF forest_node.paths = <<>>
  THEN [none |-> FALSE, tree |-> <<forest_node.name, <<>> >>, chain |-> chain, k |-> k]
  ELSE LET c == choose_path(forest_node.paths, chain, k)
           r == extract_child_nodes(g, ch, txt, c.el, seen, c.chain, c.k, <<>>)
       IN IF c.none
          THEN [none |-> TRUE, tree |-> <<>>, chain |-> c.chain, k |-> c.k]
          ELSE [none |-> r.none, tree |-> <<forest_node.name, r.nodes>>,
                chain |-> r.chain, k |-> r.k]

\* Mutant: one traversal, not asking whether the root record is finished.
extract_a_tree_unchecked(g, ch, txt, forest_node, chain) ==
  LET r == extract_a_node(g, ch, txt, forest_node, {}, chain, 1)
  IN [none |-> r.none, tree |-> r.tree, chain |-> increment(r.chain, r.k)]

\* The while loop of extract_a_tree.
RECURSIVE extract_a_tree_loop(_, _, _, _, _)
extract_a_tree_loop(g, ch, txt, forest_node, chain) ==
  IF choice_finished(chain[1])
  THEN [none |-> TRUE, tree |-> <<>>, chain |-> chain]
  ELSE LET r == extract_a_node(g, ch, txt, forest_node, {}, chain, 1)
           after == increment(r.chain, r.k)
       IN IF r.none THEN extract_a_tree_loop(g, ch, txt, forest_node, after)
          ELSE [none |-> FALSE, tree |-> r.tree, chain |-> after]

\* EnhancedExtractor(parser, text, start_symbol): SimpleExtractor.__init__
\* raises SyntaxError or keeps the forest of the finished start items.
EnhancedExtractor ==
  /\ pc = "recognized"
  /\ ~in_call
  /\ xpc = "idle"
  /\ IF raised = "none"
     THEN /\ xpc' = "ready"
          /\ my_forest' = parse_forest(grammar, chart, text, starts, cursor)
     ELSE /\ xpc' = "SyntaxError"
          /\ UNCHANGED my_forest
  /\ choices' = <<ChoiceNode(1)>>
  /\ UNCHANGED <<xreturned, xtrees, xnones, evars, lvars, gvars, gxvars, rvars>>

\* One extract_a_tree() call.
extract_a_tree ==
  /\ xpc = "ready"
  /\ ~in_call
  /\ xnones < MaxNone
  /\ LET r == extract_a_tree_loop(grammar, chart, text, my_forest, choices)
     IN /\ choices' = r.chain
        /\ xreturned' = IF r.none THEN None ELSE "tree"
        /\ xtrees' = IF r.none THEN xtrees ELSE Append(xtrees, r.tree)
        /\ xnones' = IF r.none THEN xnones + 1 ELSE xnones
  /\ UNCHANGED <<xpc, my_forest, evars, lvars, gvars, gxvars, rvars>>

ExtractNext ==
  \/ EnhancedExtractor
  \/ extract_a_tree

----------------------------------------------------------------------------
(* EnhancedExtractor over the SPPF of the GLL parser *)

\* extract_a_node(forest_node, seen, choices).  kind tells what came back:
\* "tree" for (key, children) with a key, "list" for (None, children),
\* "None" for None, "AssertionError" for a failed assert; a dummy node
\* gives ('', []), a "tree" whose key is the empty string.
RECURSIVE gll_extract_a_node(_, _, _, _, _)
RECURSIVE gll_extract_packed(_, _, _, _, _, _)

\* The loop over the children of a packed node, ret being collected.
gll_extract_packed(nodes, children, seen, chain, k, ret) ==
  IF children = <<>>
  THEN [kind |-> "list", key |-> "", kids |-> ret, chain |-> chain, k |-> k]
  ELSE LET n == Head(children)
           v == gll_extract_a_node(nodes, n, seen, chain, k)
       IN IF v.kind \in {"None", "AssertionError"} THEN v
          ELSE IF n.lbl.k = "str" /\ ~is_dummy(n)
          THEN IF v.kind # "tree"
               THEN [v EXCEPT !.kind = "AssertionError"]
               ELSE gll_extract_packed(nodes, Tail(children), seen, v.chain, v.k,
                                       Append(ret, <<v.key, v.kids>>))
          ELSE IF v.kind # "list"
               THEN [v EXCEPT !.kind = "AssertionError"]
               ELSE gll_extract_packed(nodes, Tail(children), seen, v.chain, v.k,
                                       ret \o v.kids)

gll_extract_a_node(nodes, forest_node, seen, chain, k) ==
  LET here == [kind |-> "tree", key |-> "", kids |-> <<>>, chain |-> chain, k |-> k]
      c == choose_path(nodes[forest_node], chain, k)
      chose == [here EXCEPT !.chain = c.chain, !.k = c.k]
      v == gll_extract_a_node(nodes, c.el, seen \cup {c.el}, c.chain, c.k)
  IN IF is_dummy(forest_node) THEN here
     ELSE IF forest_node.lbl.k = "P"
     THEN gll_extract_packed(nodes, nodes[forest_node], seen, chain, k, <<>>)
     ELSE IF forest_node.lbl.k = "slot"
     THEN IF nodes[forest_node] = <<>> THEN [here EXCEPT !.kind = "list"]
          ELSE IF c.none THEN [chose EXCEPT !.kind = "AssertionError"]
          ELSE IF c.el \in seen THEN [chose EXCEPT !.kind = "None"]
          ELSE IF v.kind \in {"None", "AssertionError"} THEN v
          ELSE [v EXCEPT !.kind = "list"]
     ELSE IF nodes[forest_node] = <<>> THEN [here EXCEPT !.key = forest_node.lbl.X]
          ELSE IF c.none \/ c.el \in seen THEN [chose EXCEPT !.kind = "None"]
          ELSE IF v.kind \in {"None", "AssertionError"} THEN v
          ELSE IF v.kind # "list" THEN [v EXCEPT !.kind = "AssertionError"]
          ELSE [v EXCEPT !.kind = "tree", !.key = forest_node.lbl.X]

\* The while loop of extract_a_tree; an exception leaves the loop before
\* choices.increment().
RECURSIVE gll_extract_a_tree_loop(_, _, _)
gll_extract_a_tree_loop(nodes, top, chain) ==
  IF choice_finished(chain[1])
  THEN [kind |-> "None", key |-> "", kids |-> <<>>, chain |-> chain, k |-> 1]
  ELSE LET r == gll_extract_a_node(nodes, top, {}, chain, 1)
           after == increment(r.chain, r.k)
       IN IF r.kind = "AssertionError" THEN r
          ELSE IF r.kind = "None" THEN gll_extract_a_tree_loop(nodes, top, after)
          ELSE [r EXCEPT !.chain = after]

\* EnhancedExtractor(forest), forest being the parser object the compiled
\* recognize_on returned.
GLLEnhancedExtractor ==
  /\ gpc = "done"
  /\ goutcome = "accept"
  /\ gxpc = "idle"
  /\ gxpc' = "ready"
  /\ gchoices' = <<ChoiceNode(1)>>
  /\ UNCHANGED <<gxreturned, gxtrees, gxnones, evars, lvars, gvars, exvars, rvars>>

\* One extract_a_tree() call.
gll_extract_a_tree ==
  /\ gxpc = "ready"
  /\ gxnones < MaxNone
  /\ LET r == gll_extract_a_tree_loop(parser.SPPF_nodes, root, gchoices)
     IN /\ gchoices' = r.chain
        /\ gxreturned' = r.kind
        /\ gxtrees' = IF r.kind = "tree" THEN Append(gxtrees, <<r.key, r.kids>>)
                      ELSE gxtrees
        /\ gxnones' = IF r.kind = "None" THEN gxnones + 1 ELSE gxnones
  /\ UNCHANGED <<gxpc, evars, lvars, gvars, exvars, rvars>>

GLLExtractNext ==
  \/ GLLEnhancedExtractor
  \/ gll_extract_a_tree

----------------------------------------------------------------------------
(* GLLG1Recognizer: the hand-written GSS recognizer *)

\* The grammar recognize_on sets.
G1_grammar ==
  [x \in {"<S>", "<A>"} |->
     IF x = "<S>" THEN << <<"<A>">> >> ELSE << <<"<A>", "a">>, <<>> >>]

\* The alphabet of the inputs tried.
G1_sigma == {"a", "b"}

\* GLLStructuredStack.add_thread(L, stack_top, cur_idx).
g1_add_thread(p, lbl, st, idx) ==
  LET d == [L |-> lbl, st |-> st]
  IN IF d \in p.U[idx + 1] THEN p
     ELSE [p EXCEPT !.U[idx + 1] = @ \cup {d},
                    !.threads = Append(@, [L |-> lbl, st |-> st, idx |-> idx])]

\* add_thread(lbl, sts[c], idxs[c]) for c, c + 1, ...: the loops of
\* register_return (one stack_top, the parsed indexes) and of fn_return
\* (the children, one index).
RECURSIVE g1_add_threads(_, _, _, _, _)
g1_add_threads(p, lbl, sts, idxs, c) ==
  IF c > Len(sts) THEN p
  ELSE g1_add_threads(g1_add_thread(p, lbl, sts[c], idxs[c]), lbl, sts, idxs, c + 1)

\* GLLStructuredStack.register_return(L, stack_top, cur_idx); the node it
\* returns is GSSNode(L, cur_idx).
g1_register_return(p, lbl, st, idx) ==
  LET v == GSSNode(lbl, idx)
      p1 == gss_get(p, v)
      v_to_u == \E c \in 1..Len(p1.graph[v]) : p1.graph[v][c] = st
      parsed == p1.P[v]
  IN IF v_to_u THEN p1
     ELSE g1_add_threads([p1 EXCEPT !.graph[v] = Append(@, st)], lbl,
                         [c \in 1..Len(parsed) |-> st], parsed, 1)

\* Mutant: a pop that starts no thread.
g1_fn_return_none(p, st, idx) == p

\* GLLStructuredStack.fn_return(stack_top, cur_idx).
g1_fn_return(p, st, idx) ==
  IF st = stack_bottom THEN p
  ELSE LET kids == p.graph[st]
       IN g1_add_threads([p EXCEPT !.P[st] = Append(@, idx)], st.L, kids,
                         [c \in 1..Len(kids) |-> idx], 1)

\* recognize_on(text, '<S>') is called.
GLLG1Recognizer ==
  /\ g1pc = "idle"
  /\ g1pc' = "run"
  /\ g1' = g1_initialize(rtext)
  /\ g1L' = nt_label("<S>")
  /\ g1top' = stack_bottom
  /\ g1idx' = 0
  /\ UNCHANGED <<g1out, rtext, kvars, nvars, parsers>>

\* L == 'L0' with no thread left: the verdict.
GLLG1_return ==
  /\ g1pc = "run"
  /\ g1L = L0
  /\ g1.threads = <<>>
  /\ g1pc' = "done"
  /\ g1out' = IF \E n_alt \in 1..Len(G1_grammar["<S>"]) :
                    [L |-> slot("<S>", n_alt - 1, Len(G1_grammar["<S>"][n_alt])),
                     st |-> stack_bottom] \in g1.U[g1.m]
               THEN "accept" ELSE "reject"
  /\ UNCHANGED <<g1, g1L, g1top, g1idx, rtext, kvars, nvars, parsers>>

\* One turn of the while loop that does not return: the branch of L.
GLLG1_step ==
  /\ g1pc = "run"
  /\ ~(g1L = L0 /\ g1.threads = <<>>)
  /\ LET to(p, lbl, st, idx) ==
           /\ g1' = p
           /\ g1L' = lbl
           /\ g1top' = st
           /\ g1idx' = idx
     IN IF g1L = L0
        THEN LET t == Head(g1.threads)
             IN to([g1 EXCEPT !.threads = Tail(@)], t.L, t.st, t.idx)
        ELSE IF g1L = L_
        THEN to(g1_fn_return(g1, g1top, g1idx), L0, g1top, g1idx)
        ELSE IF g1L = nt_label("<S>")
        THEN to(g1_add_thread(g1, slot("<S>", 0, 0), g1top, g1idx), L0, g1top, g1idx)
        ELSE IF g1L = slot("<S>", 0, 0)
        THEN to(g1_register_return(g1, slot("<S>", 0, 1), g1top, g1idx),
                nt_label("<A>"), GSSNode(slot("<S>", 0, 1), g1idx), g1idx)
        ELSE IF g1L = nt_label("<A>")
        THEN to(g1_add_thread(g1_add_thread(g1, slot("<A>", 0, 0), g1top, g1idx),
                              slot("<A>", 1, 0), g1top, g1idx),
                L0, g1top, g1idx)
        ELSE IF g1L = slot("<A>", 0, 0)
        THEN to(g1_register_return(g1, slot("<A>", 0, 1), g1top, g1idx),
                nt_label("<A>"), GSSNode(slot("<A>", 0, 1), g1idx), g1idx)
        ELSE IF g1L = slot("<A>", 0, 1)
        THEN IF I_at(rtext, g1idx) = "a"
             THEN to(g1, slot("<A>", 0, 2), g1top, g1idx + 1)
             ELSE to(g1, L0, g1top, g1idx)
        ELSE to(g1, L_, g1top, g1idx)
  /\ UNCHANGED <<g1pc, g1out, rtext, kvars, nvars, parsers>>

g1_running == g1pc \in {"idle", "run"}

NextG1 ==
  \/ GLLG1Recognizer
  \/ GLLG1_step
  \/ GLLG1_return

\* The inputs of the hand-written recognizers; the parsers not called.
InitRecognizers ==
  /\ InitParsers
  /\ gi = 1
  /\ text = <<>>
  /\ rtext \in Texts(G1_sigma, MaxLen)
  /\ max_count \in Budgets
  /\ recognizers_idle
  /\ nullable_idle

SpecG1 == InitRecognizers /\ [][NextG1]_vars

\* The same, the loop running as long as it has a step to take.
SpecG1Fair == SpecG1 /\ ([]<>(~g1_running) \/ []<><<NextG1>>_vars)

----------------------------------------------------------------------------
(* NaiveThreadedRecognizer: the hand-written recognizer over a CallStack *)

\* CallStack.add_thread(L, stack_top, cur_idx).
naive_add_thread(ths, lbl, st, idx) == Append(ths, [L |-> lbl, st |-> st, idx |-> idx])

\* CallStack.register_return(L, stack_top, cur_idx): the new frame on
\* stack_top.
naive_register_return(lbl, st, idx) == <<GSSNode(lbl, idx)>> \o st

\* Mutant: a pop that starts no thread.
naive_fn_return_none(ths, st, idx) == ths

\* CallStack.fn_return(stack_top, cur_idx): the threads after it.
naive_fn_return(ths, st, idx) ==
  IF st = <<stack_bottom>> THEN ths
  ELSE naive_add_thread(ths, Head(st).L, Tail(st), idx)

\* recognize_on(text, '<S>', max_count) is called.
NaiveThreadedRecognizer ==
  /\ npc = "idle"
  /\ npc' = "run"
  /\ threads' = <<>>
  /\ nL' = nt_label("<S>")
  /\ ntop' = <<stack_bottom>>
  /\ nidx' = 0
  /\ count' = 0
  /\ UNCHANGED <<nout, max_count, rtext, kvars, g1vars, parsers>>

\* One turn of the while loop: the branch of L; at L0 the next thread, the
\* parser returned when that thread is at the start symbol, the bottom of
\* the stack and the end of the input, [] returned when no thread is left.
Naive_step ==
  /\ npc = "run"
  /\ count < max_count
  /\ count' = count + 1
  /\ LET to(ths, lbl, st, idx) ==
           /\ threads' = ths
           /\ nL' = lbl
           /\ ntop' = st
           /\ nidx' = idx
           /\ UNCHANGED <<npc, nout>>
     IN IF nL = L0
        THEN IF threads # <<>>
             THEN LET t == Head(threads)
                  IN /\ threads' = Tail(threads)
                     /\ nL' = t.L
                     /\ ntop' = t.st
                     /\ nidx' = t.idx
                     /\ IF t.L.X = "<S>" /\ t.st = <<stack_bottom>>
                           /\ t.idx = Len(rtext)
                        THEN npc' = "done" /\ nout' = "parser"
                        ELSE UNCHANGED <<npc, nout>>
             ELSE /\ npc' = "done"
                  /\ nout' = "[]"
                  /\ UNCHANGED <<threads, nL, ntop, nidx>>
        ELSE IF nL = L_
        THEN to(naive_fn_return(threads, ntop, nidx), L0, ntop, nidx)
        ELSE IF nL = nt_label("<S>")
        THEN to(naive_add_thread(threads, slot("<S>", 0, 0), ntop, nidx), L0, ntop, nidx)
        ELSE IF nL = slot("<S>", 0, 0)
        THEN to(threads, nt_label("<A>"),
                naive_register_return(slot("<S>", 0, 1), ntop, nidx), nidx)
        ELSE IF nL = nt_label("<A>")
        THEN to(naive_add_thread(naive_add_thread(threads, slot("<A>", 0, 0), ntop, nidx),
                                 slot("<A>", 1, 0), ntop, nidx),
                L0, ntop, nidx)
        ELSE IF nL = slot("<A>", 0, 0)
        THEN to(threads, nt_label("<A>"),
                naive_register_return(slot("<A>", 0, 1), ntop, nidx), nidx)
        ELSE IF nL = slot("<A>", 0, 1)
        THEN IF I_at(rtext, nidx) = "a"
             THEN to(threads, slot("<A>", 0, 2), ntop, nidx + 1)
             ELSE to(threads, L0, ntop, nidx)
        ELSE to(threads, L_, ntop, nidx)
  /\ UNCHANGED <<max_count, rtext, kvars, g1vars, parsers>>

\* The while condition fails: recognize_on falls off its end and returns
\* None.
Naive_budget_exhausted ==
  /\ npc = "run"
  /\ count >= max_count
  /\ npc' = "done"
  /\ nout' = None
  /\ UNCHANGED <<threads, nL, ntop, nidx, count, max_count, rtext, kvars, g1vars, parsers>>

NextNaive ==
  \/ NaiveThreadedRecognizer
  \/ Naive_step
  \/ Naive_budget_exhausted

SpecNaive == InitRecognizers /\ [][NextNaive]_vars

----------------------------------------------------------------------------
(* nullable(g) called on its own, one turn of its while loop at a time *)

\* The grammars given to nullable: dicts built from at most MaxRules rules
\* key -> alternative, the keys among <A>, <B>, <C> in the order they were
\* first given, the alternatives of at most MaxAltLen nonterminals, or the
\* terminal a alone or after <A>.
MaxRules == 3

MaxAltLen == 2

nullable_nts == {"<A>", "<B>", "<C>"}

nullable_alts(len) ==
  UNION {[1..n -> nullable_nts] : n \in 0..len}
    \cup {<<"a">>, <<"<A>", "a">>}

nullable_rules(len) == nullable_nts \X nullable_alts(len)

\* The dict of a list of rules: its keys in insertion order and the list
\* of alternatives of each key.
RECURSIVE dict_keys(_, _)
dict_keys(rules, acc) ==
  IF rules = <<>> THEN acc
  ELSE dict_keys(Tail(rules),
                 IF Head(rules)[1] \in Range(acc) THEN acc
                 ELSE Append(acc, Head(rules)[1]))

dict_of(rules) ==
  [keys |-> dict_keys(rules, <<>>),
   alts |-> [k \in {rules[r][1] : r \in 1..Len(rules)} |->
               Map(LAMBDA rule : rule[2],
                   SelectSeq(rules, LAMBDA rule : rule[1] = k))]]

nullable_inputs(most, len) ==
  {dict_of(rules) : rules \in UNION {[1..n -> nullable_rules(len)] : n \in 0..most}}

\* The orders list(a_set) can give.
RECURSIVE Orders(_)
Orders(S) ==
  IF S = {} THEN {<<>>}
  ELSE UNION {{<<x>> \o r : r \in Orders(S \ {x})} : x \in S}

InitNullable ==
  /\ InitParsers
  /\ gi = 1
  /\ text = <<>>
  /\ rtext = <<>>
  /\ max_count = default_max_count
  /\ recognizers_idle
  /\ kg \in nullable_inputs(MaxRules, MaxAltLen)
  /\ kpc = "idle"
  /\ knullable_keys = {}
  /\ kunprocessed = <<>>
  /\ kg_cur = <<>>

\* nullable(g) up to the while loop.
nullable_call ==
  /\ kpc = "idle"
  /\ LET nullable_keys == {k \in DOMAIN kg.alts :
                              \E a \in 1..Len(kg.alts[k]) : kg.alts[k][a] = <<>>}
     IN /\ knullable_keys' = nullable_keys
        /\ kunprocessed' \in Orders(nullable_keys)
  /\ kg_cur' = rem_terminals(kg.alts)
  /\ kpc' = "loop"
  /\ UNCHANGED <<kg, rtext, g1vars, nvars, parsers>>

\* One turn of the while loop: the keys of g_cur are visited in the order
\* of the dict.
nullable_turn ==
  /\ kpc = "loop"
  /\ kunprocessed # <<>>
  /\ LET nxt == Head(kunprocessed)
         found == SelectSeq(kg.keys,
                    LAMBDA k : k \in DOMAIN kg_cur /\ first_empty(kg_cur[k], nxt) # 0)
     IN /\ knullable_keys' = knullable_keys \cup Range(found)
        /\ kunprocessed' = Tail(kunprocessed) \o found
        /\ kg_cur' = [k \in {k \in DOMAIN kg_cur : g_alts(kg_cur[k], nxt) # <<>>}
                        |-> g_alts(kg_cur[k], nxt)]
  /\ UNCHANGED <<kg, kpc, rtext, g1vars, nvars, parsers>>

\* The while condition fails: return nullable_keys.
nullable_return ==
  /\ kpc = "loop"
  /\ kunprocessed = <<>>
  /\ kpc' = "done"
  /\ UNCHANGED <<kg, knullable_keys, kunprocessed, kg_cur, rtext, g1vars, nvars,
                 parsers>>

NextNullable == nullable_call \/ nullable_turn \/ nullable_return

SpecNullable == InitNullable /\ [][NextNullable]_vars

\* The call is not suspended for ever.
SpecNullableFair == SpecNullable /\ WF_vars(NextNullable)

----------------------------------------------------------------------------

EarleyNext ==
  \/ Complete
  \/ Predict
  \/ Scan
  \/ ScanPastEnd
  \/ NextColumn
  \/ parse_prefix
  \/ recognize_on

Next == EarleyNext \/ parse_on

Spec == Init /\ [][Next]_vars

\* EarleyParser then LeoParser on the same input.
NextLeo == EarleyNext \/ LeoNext

SpecLeo == Init /\ [][NextLeo]_vars

\* The same, the LeoParser object then parsing a second text.
NextLeoAgain == NextLeo \/ LeoParseAgain

SpecLeoAgain == Init /\ [][NextLeoAgain]_vars

\* EarleyParser then the compiled GLL parser on the same input.
NextGLL == EarleyNext \/ GLLNext

SpecGLL == Init /\ [][NextGLL]_vars

\* The parsers have a step to take: their loops are running.
\* EarleyParser, the compiled GLL parser, then the GLL driver again taking
\* the queued descriptors in any order.
NextGLLAny == EarleyNext \/ GLLDriver \/ GLL_any_order \/ GLL_L0_any_thread

SpecGLLAny == Init /\ [][NextGLLAny]_vars

earley_running == pc \in {"fill", "prefix"}
gll_running == (pc = "recognized" /\ gpc = "idle") \/ gpc = "run"


\* EarleyParser, then an EnhancedExtractor over its forest, the compiled
\* GLL recognizer and an EnhancedExtractor over its SPPF.
NextExtract ==
  \/ EarleyNext
  \/ ExtractNext
  \/ GLLDriver
  \/ GLLExtractNext

SpecExtract == Init /\ [][NextExtract]_vars

\* When the caller makes one more call of extract_a_tree(): the guards of
\* the two actions, a caller that got an exception calling no more.
can_extract == xpc = "ready" /\ ~in_call /\ xnones < MaxNone
gll_can_extract == gxpc = "ready" /\ gxnones < MaxNone /\ gxreturned # "AssertionError"

\* The same, the parsers running to their end and the caller going on
\* calling as long as a call is possible: weak fairness of the parsers'
\* steps and of both extract_a_tree, the ENABLED of each written as the
\* state predicate above that implies it.
SpecExtractFair ==
  /\ SpecExtract
  /\ ([]<>(~earley_running) \/ []<><<EarleyNext>>_vars)
  /\ ([]<>(~gll_running) \/ []<><<GLLDriver>>_vars)
  /\ ([]<>(~can_extract) \/ []<><<extract_a_tree>>_vars)
  /\ ([]<>(~gll_can_extract) \/ []<><<gll_extract_a_tree>>_vars)

----------------------------------------------------------------------------
(* What the grammar derives: the yardstick of the claims, from the         *)
(* definition of a derivation and not from the parsers.                    *)

\* alt derives txt[p+1..j], the nonterminal spans of D being known.
RECURSIVE SeqDerives(_, _, _, _, _, _)
SeqDerives(g, D, txt, alt, p, j) ==
  IF alt = <<>> THEN p = j
  ELSE IF Head(alt) \in DOMAIN g
  THEN \E q \in p..j : /\ <<Head(alt), p, q>> \in D
                       /\ SeqDerives(g, D, txt, Tail(alt), q, j)
  ELSE /\ p < j
       /\ txt[p + 1] = Head(alt)
       /\ SeqDerives(g, D, txt, Tail(alt), p + 1, j)

RECURSIVE DerivesFrom(_, _, _)
DerivesFrom(g, txt, D) ==
  LET more == {x \in (DOMAIN g) \X (0..Len(txt)) \X (0..Len(txt)) :
                 /\ x[2] <= x[3]
                 /\ \E a \in 1..Len(g[x[1]]) :
                      SeqDerives(g, D, txt, g[x[1]][a], x[2], x[3])}
  IN IF more \subseteq D THEN D ELSE DerivesFrom(g, txt, D \cup more)

\* The least set of <<X, i, j>> with X =>* txt[i+1..j].
Derives(g, txt) == DerivesFrom(g, txt, {})

InLanguage == <<start_symbol, 0, Len(text)>> \in Derives(grammar, text)

\* The ways alt splits over txt[p+1..j]: sequences of <<symbol, from, to>>.
RECURSIVE Splits(_, _, _, _, _, _)
Splits(g, D, txt, alt, p, j) ==
  IF alt = <<>> THEN (IF p = j THEN {<<>>} ELSE {})
  ELSE IF Head(alt) \in DOMAIN g
  THEN UNION {{<<<<Head(alt), p, q>>>> \o r : r \in Splits(g, D, txt, Tail(alt), q, j)} :
                q \in {q \in p..j : <<Head(alt), p, q>> \in D}}
  ELSE IF p < j /\ txt[p + 1] = Head(alt)
  THEN {<<<<Head(alt), p, p + 1>>>> \o r : r \in Splits(g, D, txt, Tail(alt), p + 1, j)}
  ELSE {}

AllSplits(g, D, txt, x) ==
  UNION {Splits(g, D, txt, g[x[1]][a], x[2], x[3]) : a \in 1..Len(g[x[1]])}

\* No derivation of x uses x below itself: x has finitely many trees.
RECURSIVE Acyclic(_, _, _, _, _)
Acyclic(g, D, txt, x, anc) ==
  \A sp \in AllSplits(g, D, txt, x) : \A k \in 1..Len(sp) :
     sp[k][1] \in DOMAIN g =>
       /\ sp[k] \notin anc
       /\ Acyclic(g, D, txt, sp[k], anc \cup {sp[k]})

\* All sequences with s[k] \in sets[k].
RECURSIVE SeqsOver(_)
SeqsOver(sets) ==
  IF sets = <<>> THEN {<<>>}
  ELSE {<<x>> \o r : x \in Head(sets), r \in SeqsOver(Tail(sets))}

\* The derivation trees of x (x acyclic).
RECURSIVE DerivTrees(_, _, _, _)
DerivTrees(g, D, txt, x) ==
  IF x[1] \notin DOMAIN g THEN {<<x[1], <<>> >>}
  ELSE {<<x[1], kids>> :
          kids \in UNION {SeqsOver([k \in 1..Len(sp) |-> DerivTrees(g, D, txt, sp[k])]) :
                            sp \in AllSplits(g, D, txt, x)}}

Root == <<start_symbol, 0, Len(text)>>

FinitelyManyTrees ==
  Acyclic(grammar, Derives(grammar, text), text, Root, {Root})

TreesOfText == DerivTrees(grammar, Derives(grammar, text), text, Root)

done == pc \in {"recognized", "parsed"}

----------------------------------------------------------------------------
(* Claims on EarleyParser *)

C7_OneTree ==
  (pc = "parsed" /\ FinitelyManyTrees /\ Cardinality(TreesOfText) = 1) =>
    /\ ~diverged
    /\ Len(yielded) = 1

C7_Witness ==
  /\ pc = "parsed"
  /\ gi = 8
  /\ Len(text) >= 3
  /\ Len(yielded) = 1

\* C9: when text has finitely many derivation trees, parse_on yields
\* exactly these trees, each once.
C9_AllTreesOnce ==
  (pc = "parsed" /\ FinitelyManyTrees) =>
    /\ ~diverged
    /\ Range(yielded) = TreesOfText
    /\ Len(yielded) = Cardinality(TreesOfText)

\* C10: parse_prefix returns the index of the latest column holding a
\* completed start item, with those items; that index is the length of
\* the longest prefix of text the start symbol derives.
LongestPrefix ==
  LET D == Derives(grammar, text)
      ok == {j \in 0..Len(text) : <<start_symbol, 0, j>> \in D}
  IN IF ok = {} THEN -1 ELSE CHOOSE j \in ok : \A h \in ok : h <= j

C10_PrefixCompleted ==
  done =>
    /\ cursor = LongestPrefix
    /\ \A k \in 1..Len(states) : finished(states[k])

----------------------------------------------------------------------------
(* LeoParser against EarleyParser *)

leo_done == lpc \in {"recognized", "parsed"}

\* C3: once LeoParser.recognize_on has ended, it has accepted (returned
\* without raising) exactly when EarleyParser.recognize_on accepted the
\* same grammar, start symbol and text.
C3_LeoAcceptsSame ==
  leo_done => ((lraised = "none") <=> (raised = "none"))

\* C5: every tree LeoParser.parse_on yields has leaves that tree_to_str
\* concatenates to text.
C5_LeoTreeYieldsText ==
  lpc = "parsed" =>
    \A k \in 1..Len(lyielded) : tree_to_str(lyielded[k]) = text

\* C8: for <A> -> a <A> | a with start <A> and a text of N >= 1 letters a,
\* LeoParser.parse_on yields exactly one tree.
C8_LeoRightRecursionOneTree ==
  (lpc = "parsed" /\ grammar = G_RR.g /\ start_symbol = G_RR.start
     /\ Len(text) >= 1) =>
    Len(lyielded) = 1

----------------------------------------------------------------------------
(* The compiled GLL parser against EarleyParser *)

gll_done == gpc \in {"done", "parsed"}

\* C2: once the compiled recognize_on has ended, it has returned the parser
\* object (an SPPF node (start, 0, n) exists when the descriptor queue is
\* empty) exactly when EarleyParser.recognize_on accepted the same grammar,
\* start symbol and text.
C2_EarleyGLLAgree ==
  gll_done => ((raised = "none") <=> (goutcome = "accept"))

\* C6: whatever packed child is picked at each symbol node, the tree the
\* compiled parse_on returns has leaves that concatenate to text.
C6_GLLTreeYieldsText ==
  gpc = "parsed" => tree_to_str(gtree) = text

\* C11: when text is not in L(G), the compiled recognize_on and parse_on
\* end with a syntax error, and with no other outcome.
C11_GLLSyntaxError ==
  (gpc \in {"done", "parsed", "raised"} /\ ~InLanguage) =>
    goutcome = "SyntaxError"

----------------------------------------------------------------------------
(* EnhancedExtractor *)

Distinct(s) == \A i, j \in 1..Len(s) : i # j => s[i] # s[j]

\* C12: the trees returned by the extract_a_tree calls made so far on one
\* extractor (over the Earley forest, over the GLL SPPF) are pairwise
\* different.
C12_DistinctTrees ==
  Distinct(xtrees) /\ Distinct(gxtrees)

C12_Witness ==
  /\ Len(xtrees) >= 5
  /\ Len(gxtrees) >= 5
  /\ xnones >= 1
  /\ gxnones >= 1

\* C13: a call returns None only with the root choice record finished; from
\* then on no step changes a choice record or the trees returned, and what
\* a call returns is None, never an exception.
C13_ExhaustedStays ==
  [][/\ (xnones' >= 1 => choice_finished(choices'[1]))
     /\ (gxnones' >= 1 => choice_finished(gchoices'[1]))
     /\ (xpc = "ready" /\ choice_finished(choices[1])) =>
          (choices' = choices /\ xtrees' = xtrees /\ xreturned' \in {xreturned, None})
     /\ (gxpc = "ready" /\ choice_finished(gchoices[1])) =>
          (gchoices' = gchoices /\ gxtrees' = gxtrees
           /\ gxreturned' \in {gxreturned, None})]_vars

C13_Witness ==
  /\ xnones = MaxNone
  /\ gxnones = MaxNone
  /\ Len(xtrees) >= 1
  /\ Len(gxtrees) >= 1

\* C14: for the cyclic grammar <A> -> <B> | a, <B> -> <A> and an accepted
\* text, the calls on an extractor (each one ends) come to return None
\* after having returned at least one tree.
C14_CyclicExtractionEnds ==
  /\ (grammar = G_CYC.g /\ xpc = "ready") ~> (xnones >= 1 /\ Len(xtrees) >= 1)
  /\ (grammar = G_CYC.g /\ gxpc = "ready") ~> (gxnones >= 1 /\ Len(gxtrees) >= 1)

C14_Witness ==
  /\ grammar = G_CYC.g
  /\ xnones >= 1
  /\ Len(xtrees) = 2
  /\ gxnones >= 1
  /\ Len(gxtrees) = 2

\* C15: chart filling ends for every grammar and text: get_top never comes
\* back to a completed item whose transitive item is not yet stored, so the
\* recursion along the reduction path is finite and LeoParser never ends
\* in a RecursionError.
C15_ChartFillingEnds == lraised # "RecursionError"

\* C16: the GLL driver loop ends for every grammar and text by the
\* descriptor list R becoming empty and recognize_on returning its verdict:
\* when the loop has been left, it has been left at L0 with no thread
\* queued and with the parser object or [] returned.
C16_GLLDriverReturns ==
  gpc = "done" => (goutcome \in {"accept", "reject"} /\ parser.threads = <<>>)

\* The strings of a*.
InAStar(txt) == \A i \in 1..Len(txt) : txt[i] = "a"

\* C17: GLLG1Recognizer.recognize_on ends on every input, and what it
\* returns is truthy exactly for the inputs in a*.
C17_G1AcceptsAStar ==
  /\ [](g1pc = "done" => (g1out = "accept" <=> InAStar(rtext)))
  /\ ((g1pc = "run") ~> (g1pc = "done"))

C17_Witness ==
  /\ g1pc = "done"
  /\ g1out = "accept"
  /\ rtext = <<"a", "a", "a">>

\* C18: NaiveThreadedRecognizer.recognize_on accepts '', 'a', 'aa' and 'aaa'
\* within the default budget; on 'ab' it returns the parser for no budget,
\* and the loop has a thread to go on with whenever it is at L0, so that
\* only the budget ends it.
C18_NaiveBudget ==
  /\ (npc = "done" /\ max_count = default_max_count /\ InAStar(rtext) /\ Len(rtext) <= 3)
       => (nout = "parser" /\ count <= default_max_count)
  /\ rtext = <<"a", "b">> =>
       /\ nout # "parser"
       /\ (npc = "run" /\ nL = L0) => threads # <<>>
       /\ npc = "done" => (nout = None /\ count = max_count)

C18_Witness ==
  /\ rtext = <<"a", "b">>
  /\ npc = "done"
  /\ count = default_max_count
  /\ nout = None

\* C19: a budget used up before a verdict is reported as an outcome of its
\* own, which is not what recognize_on gives for an input it rejects.
C19_BudgetExceededDistinct ==
  (npc = "done" /\ count >= max_count /\ nout # "parser") => nout = "BudgetExceeded"


\* C20: what a parse call yields depends on the grammar, the text and the
\* start symbol only, not on the calls made before on the same object: the
\* LeoParser object yields what a LeoParser object made for the call
\* yields.
C20_NoCarryOver ==
  lpc = "parsed" => (lyielded = fyielded /\ ldiverged = fdiverged)

\* C21: for <A> -> a <A> | a and the input a^N, every column of the chart
\* LeoParser fills holds at most 5 items, whatever N is, whereas the columns
\* of the chart EarleyParser fills grow with their index (j + 3 items in
\* column j from column 2 on).
RightRecursive == grammar = G_RR.g /\ start_symbol = G_RR.start

C21_LeoColumnsBounded ==
  RightRecursive =>
    /\ lpc \in {"fill", "recognized"} =>
         \A c \in 1..Len(lchart) : Len(lchart[c]) <= 5
    /\ pc = "recognized" /\ raised = "none" =>
         /\ \A j \in 2..Len(text) : Len(chart[j + 1]) = j + 3
         /\ \A j \in 1..Len(text) : Len(chart[j + 1]) > Len(chart[j])

C21_Witness ==
  /\ RightRecursive
  /\ Len(text) = MaxLen
  /\ lpc = "recognized"
  /\ lraised = "none"
  /\ Len(lchart[MaxLen + 1]) = 5
  /\ Len(chart[MaxLen + 1]) = MaxLen + 3

\* C22: while LeoParser fills the chart the assertion of
\* Column.add_transitive (the key is not yet among the transitives of the
\* column) never fails, the case where the recursive call of get_top stores
\* a transitive in the same column under the same name included.
C22_AddTransitiveAssertionHolds ==
  lpc \in {"fill", "recognized"} => lraised # "AssertionError"

\* C23: every item LeoParser places in column e while it fills the chart is
\* also in column e of the chart EarleyParser fills for the same grammar,
\* start symbol and text (items compared by name, alternative, dot and start
\* column).
in_col(col, st) == \E k \in 1..Len(col) : t_key(col[k]) = t_key(st)

C23_LeoItemsAreEarleyItems ==
  pc = "recognized" /\ lpc \in {"fill", "recognized"} =>
    \A e \in 1..Len(lchart) :
      \A k \in 1..Len(lchart[e]) : in_col(chart[e], lchart[e][k])

\* C24: in every state of a parse, chart filling by either parser and the
\* forest construction of LeoParser with expand_tstate included, no column
\* holds two items with the same name, alternative, dot and start column.
no_duplicates(col) ==
  \A k1, k2 \in 1..Len(col) : t_key(col[k1]) = t_key(col[k2]) => k1 = k2

dot_in_range(col) ==
  \A k \in 1..Len(col) : 0 <= col[k].dot /\ col[k].dot <= Len(col[k].expr)

C25_DotWithinAlternative ==
  /\ \A c \in 1..Len(chart) : dot_in_range(chart[c])
  /\ \A c \in 1..Len(lchart) : dot_in_range(lchart[c])

\* C26: every item of column j starts at a column s <= j and the symbols
\* before its dot derive exactly text[s+1..j] (the column an item is added
\* to is its end column); in the charts of both parsers, for the items of
\* the Leo reduction and for those expand_tstate adds.
before_dot(st) ==
  SubSeq(st.expr, 1, IF st.dot <= Len(st.expr) THEN st.dot ELSE Len(st.expr))

spans(col, j) ==
  LET D == Derives(grammar, text)
  IN \A k \in 1..Len(col) :
       /\ col[k].s <= j
       /\ SeqDerives(grammar, D, text, before_dot(col[k]), col[k].s, j)

C26_ItemsSpanTheirInput ==
  /\ \A c \in 1..Len(chart) : spans(chart[c], c - 1)
  /\ \A c \in 1..Len(lchart) : spans(lchart[c], c - 1)

\* C27: nullable(g) terminates and returns exactly the least set N of keys
\* such that X is in N iff some alternative of X consists only of symbols
\* of N (the empty alternative included); g is left as it was.
RECURSIVE LeastNullableFrom(_, _)
LeastNullableFrom(g, N) ==
  LET M == {X \in DOMAIN g :
              \E a \in 1..Len(g[X]) : \A k \in 1..Len(g[X][a]) : g[X][a][k] \in N}
  IN IF M = N THEN N ELSE LeastNullableFrom(g, M)

LeastNullable(g) == LeastNullableFrom(g, {})

C27_NullableLeastSet ==
  /\ [](kpc = "done" => knullable_keys = LeastNullable(kg.alts))
  /\ [][kg' = kg]_vars
  /\ (kpc = "loop") ~> (kpc = "done")

\* <A> is found nullable in the loop, after <B> and <C> were taken out of
\* its alternative in two turns.
C27_Witness ==
  /\ kpc = "done"
  /\ kg = dict_of(<< <<"<A>", <<"<B>", "<C>">> >>, <<"<B>", <<>> >>,
                     <<"<C>", <<>> >> >>)
  /\ knullable_keys = {"<A>", "<B>", "<C>"}

\* C28: in EarleyParser.fill_chart each item of a column is processed
\* (predict, scan or complete) exactly once and in insertion order, the
\* items appended to the column during its iteration included: the position
\* si moves on by one per item, the lists only grow at their end, and the
\* next column is begun only when the list is exhausted.  Processing
\* column i adds items to column i and column i + 1 only, and the chart
\* keeps its number of columns.
IsPrefix(s, t) == Len(s) <= Len(t) /\ SubSeq(t, 1, Len(s)) = s

item_processed ==
  /\ si <= Len(chart[ci + 1])
  /\ ci' = ci
  /\ si' = si + 1
  /\ Len(chart') = Len(chart)
  /\ \A c \in 1..Len(chart) :
       IF c \in {ci + 1, ci + 2} THEN IsPrefix(chart[c], chart'[c])
       ELSE chart'[c] = chart[c]

column_exhausted ==
  /\ si > Len(chart[ci + 1])
  /\ ci + 1 < Len(chart)
  /\ ci' = ci + 1
  /\ si' = 1
  /\ chart' = chart

C28_ProcessedOnceInOrder ==
  /\ [][pc = "fill" /\ (item_processed \/ column_exhausted)]_<<chart, ci, si>>
  /\ [](pc # "fill" => ci + 1 = Len(chart) /\ si = Len(chart[ci + 1]) + 1)

\* An item appended to column 0 during its iteration has been processed,
\* and the next column has received an item.
C28_Witness ==
  /\ pc = "fill"
  /\ ci = 0
  /\ si > Len(chart_parse(grammar, text, start_symbol)[1]) + 1
  /\ Len(chart) > 1
  /\ chart[2] # <<>>

\* C29: in the GLL driver a descriptor (label, stack node, input index,
\* SPPF node) is enqueued at most once in a parse: every queued descriptor
\* is recorded in U[index] and queued once, a step enqueues only
\* descriptors that were not in U[index] before it, each once, and no
\* U[index] ever loses a descriptor.
recorded(p, t) == [L |-> t.L, st |-> t.st, w |-> t.w] \in p.U[t.idx + 1]

\* What a step of the driver appended to the queue.
enqueued ==
  IF IsPrefix(parser.threads, parser'.threads)
  THEN SubSeq(parser'.threads, Len(parser.threads) + 1, Len(parser'.threads))
  ELSE SubSeq(parser'.threads, Len(parser.threads), Len(parser'.threads))

enqueue_step ==
  /\ \/ IsPrefix(parser.threads, parser'.threads)
     \/ IsPrefix(Tail(parser.threads), parser'.threads)
  /\ \A k \in 1..Len(enqueued) : ~recorded(parser, enqueued[k])
  /\ \A k1, k2 \in 1..Len(enqueued) : enqueued[k1] = enqueued[k2] => k1 = k2
  /\ \A j \in 1..Len(parser.U) : parser.U[j] \subseteq parser'.U[j]
  /\ Len(parser'.U) = Len(parser.U)

C29_DescriptorEnqueuedOnce ==
  /\ [](gpc \in {"run", "done"} =>
          /\ \A k \in 1..Len(parser.threads) : recorded(parser, parser.threads[k])
          /\ \A k1, k2 \in 1..Len(parser.threads) :
               parser.threads[k1] = parser.threads[k2] => k1 = k2)
  /\ [][gpc = "run" => enqueue_step]_parser

\* Two descriptors are queued and others, recorded for the same index, have
\* been taken from the queue already.
C29_Witness ==
  /\ gpc = "run"
  /\ Len(parser.threads) >= 2
  /\ \E j \in 1..Len(parser.U) :
       Cardinality(parser.U[j]) >=
         2 + Cardinality({k \in 1..Len(parser.threads) : parser.threads[k].idx = j - 1})

\* C30: what a GLL parse leaves behind (the SPPF nodes with their packed
\* children, the GSS edges, the verdict) is the same whatever queued
\* descriptor the driver takes next, and not only for the FIFO order of
\* next_thread.
C30_OrderIndependent ==
  gmode = "any" /\ gpc = "done" =>
    gll_result(parser, goutcome) = gll_result(fifo.parser, fifo.outcome)

\* A parse that took the descriptors in another order than FIFO is
\* accepted with packed children or GSS edges added in another order.
C30_Witness ==
  /\ gmode = "any"
  /\ gpc = "done"
  /\ goutcome = "accept"
  /\ \/ parser.SPPF_nodes # fifo.parser.SPPF_nodes
     \/ parser.graph # fifo.parser.graph

\* C31: in every state of a GLL parse the GSS has one node per (label,
\* index): the stack top, the stack of every recorded descriptor and the
\* target of every edge are nodes of the graph, found by their label; no
\* node has two edges to the same target with the same SPPF node; and no
\* step of the parse removes a node, an edge or a popped entry.
gss_node(p, v) == v \in DOMAIN p.graph /\ v \in DOMAIN p.P

one_node_per_label ==
  /\ DOMAIN parser.graph = DOMAIN parser.P
  /\ gss_node(parser, stack_top)
  /\ \A j \in 1..Len(parser.U) : \A d \in parser.U[j] : gss_node(parser, d.st)
  /\ \A v \in DOMAIN parser.graph :
       \A c \in 1..Len(parser.graph[v]) : gss_node(parser, parser.graph[v][c].st)

no_duplicate_edges ==
  \A v \in DOMAIN parser.graph :
    \A c1, c2 \in 1..Len(parser.graph[v]) :
      parser.graph[v][c1] = parser.graph[v][c2] => c1 = c2

gss_grows ==
  \A v \in DOMAIN parser.graph :
    /\ gss_node(parser', v)
    /\ IsPrefix(parser.graph[v], parser'.graph[v])
    /\ IsPrefix(parser.P[v], parser'.P[v])

C31_GSSUniqueAndGrowing ==
  /\ [](gpc \in {"run", "done"} => one_node_per_label /\ no_duplicate_edges)
  /\ [][gpc = "run" => gss_grows]_parser

\* A node that has popped has two edges and a second pop recorded.
C31_Witness ==
  /\ gpc = "run"
  /\ \E v \in DOMAIN parser.graph :
       Len(parser.graph[v]) >= 2 /\ Len(parser.P[v]) >= 2

\* C32: in every state of a GLL parse SPPF_nodes holds one node per key:
\* the current SPPF node, the node of every recorded descriptor, of every
\* GSS edge and popped entry, and every child are found there; the children
\* of a symbol or intermediate node are packed nodes with pairwise
\* different (slot, k), each registered under (('P', slot, k), j, i) of its
\* parent; and no assertion has failed, that of getNodeP on the packed-node
\* key included.
sppf_node(p, n) == n \in DOMAIN p.SPPF_nodes

packs(n) == n.lbl.k \in {"str", "slot"}

one_node_per_key ==
  /\ sppf_node(parser, cur_sppf_node)
  /\ \A j \in 1..Len(parser.U) : \A d \in parser.U[j] : sppf_node(parser, d.w)
  /\ \A v \in DOMAIN parser.graph :
       /\ \A c \in 1..Len(parser.graph[v]) : sppf_node(parser, parser.graph[v][c].w)
       /\ \A c \in 1..Len(parser.P[v]) : sppf_node(parser, parser.P[v][c])
  /\ \A n \in DOMAIN parser.SPPF_nodes :
       \A c \in 1..Len(parser.SPPF_nodes[n]) :
         sppf_node(parser, parser.SPPF_nodes[n][c])

packed_children_unique ==
  \A n \in DOMAIN parser.SPPF_nodes :
    packs(n) =>
      /\ \A c \in 1..Len(parser.SPPF_nodes[n]) :
           LET pn == parser.SPPF_nodes[n][c]
           IN pn.lbl.k = "P" /\ pn.j = n.j /\ pn.i = n.i
      /\ \A c1, c2 \in 1..Len(parser.SPPF_nodes[n]) :
           parser.SPPF_nodes[n][c1].lbl = parser.SPPF_nodes[n][c2].lbl => c1 = c2

C32_PackedNodesUnique ==
  gpc \in {"run", "done"} =>
    /\ parser.err # "AssertionError"
    /\ one_node_per_key
    /\ packed_children_unique

\* A symbol node has two packed children and an intermediate node has one.
C32_Witness ==
  /\ gpc = "done"
  /\ \E n \in DOMAIN parser.SPPF_nodes :
       n.lbl.k = "str" /\ Len(parser.SPPF_nodes[n]) >= 2
  /\ \E n \in DOMAIN parser.SPPF_nodes :
       n.lbl.k = "slot" /\ Len(parser.SPPF_nodes[n]) >= 1

\* C33: the SPPF nodes the GLL driver builds have consistent extents.
\* Every call of getNodeP the next step makes with a left node w that is
\* not the dummy has the right extent of w equal to the left extent of z;
\* every packed node (slot, k) under a parent (t, j, i) has j <= k <= i;
\* and a symbol node (X, j, i) of a nonterminal X exists only if X derives
\* the input from j to i.
not_dummy(sppf_w) == ~(sppf_w.lbl.k = "str" /\ sppf_w.lbl.X = "$")

\* The <<sppf_w, sppf_z>> the branch of the driver about to run passes to
\* getNodeP: compile_epsilon and compile_terminal, fn_return for every edge
\* of the stack top, register_return for every popped entry of the node it
\* pushes.
getNodeP_calls ==
  IF gpc # "run" THEN {}
  ELSE IF L = L_
  THEN IF stack_top = stack_bottom THEN {}
       ELSE {<<parser.graph[stack_top][c].w, cur_sppf_node>> :
               c \in 1..Len(parser.graph[stack_top])}
  ELSE IF L.k # "slot" THEN {}
  ELSE IF cur_rule = <<>> THEN {<<cur_sppf_node, getNodeT(None_label, cur_idx)>>}
  ELSE IF L.dot = Len(cur_rule) THEN {}
  ELSE IF is_nt(cur_rule[L.dot + 1])
  THEN LET v == GSSNode(slot(L.X, L.alt, L.dot + 1), cur_idx)
       IN IF v \notin DOMAIN parser.graph
             \/ (\E c \in 1..Len(parser.graph[v]) :
                   parser.graph[v][c] = [st |-> stack_top, w |-> cur_sppf_node])
          THEN {}
          ELSE {<<cur_sppf_node, parser.P[v][c]>> : c \in 1..Len(parser.P[v])}
  ELSE IF cur_idx <= parser.m /\ I_at(text, cur_idx) = cur_rule[L.dot + 1]
  THEN {<<cur_sppf_node, getNodeT(str_label(I_at(text, cur_idx)), cur_idx)>>}
  ELSE {}

extents_meet ==
  \A wz \in getNodeP_calls : not_dummy(wz[1]) => wz[1].i = wz[2].j

packed_within_parent ==
  \A n \in DOMAIN parser.SPPF_nodes :
    \A c \in 1..Len(parser.SPPF_nodes[n]) :
      LET pn == parser.SPPF_nodes[n][c]
      IN pn.lbl.k = "P" => n.j <= pn.lbl.pk /\ pn.lbl.pk <= n.i

symbol_nodes_derive ==
  \A n \in DOMAIN parser.SPPF_nodes :
    (n.lbl.k = "str" /\ is_nt(n.lbl.X)) =>
      <<n.lbl.X, n.j, n.i>> \in Derives(grammar, text)

C33_ConsistentExtents ==
  gpc \in {"run", "done"} =>
    /\ extents_meet
    /\ packed_within_parent
    /\ symbol_nodes_derive

\* C34: the branch of an epsilon alternative of X, taken at index i with
\* stack top u, goes to L_ with u and i unchanged and with the symbol node
\* (X, i, i), which has the packed child (X ::= . , i) whose only child is
\* the epsilon node (None, i, i).  Whatever route reached L_, the empty
\* alternative or the dot past the end of a non-empty one, the pop there
\* gets the stack top u, the index and a symbol node of a nonterminal that
\* spans the input from the index of u to the current index, and records
\* that node in P[u] when u is not the stack bottom.
driver_state == <<L, stack_top, cur_idx, cur_sppf_node, parser>>

epsilon_pop ==
  LET y == SPPFNode(str_label(L.X), cur_idx, cur_idx)
      pn == SPPFNode(P_label(L, cur_idx), cur_idx, cur_idx)
      eps == SPPFNode(None_label, cur_idx, cur_idx)
  IN /\ L' = L_
     /\ stack_top' = stack_top
     /\ cur_idx' = cur_idx
     /\ cur_sppf_node' = y
     /\ stack_top.idx = cur_idx
     /\ y \in DOMAIN parser'.SPPF_nodes
     /\ \E c \in 1..Len(parser'.SPPF_nodes[y]) : parser'.SPPF_nodes[y][c] = pn
     /\ parser'.SPPF_nodes[pn] = <<eps>>
     /\ parser'.SPPF_nodes[eps] = <<>>

end_of_rule_pop ==
  /\ L' = L_
  /\ stack_top' = stack_top
  /\ cur_idx' = cur_idx
  /\ cur_sppf_node' = cur_sppf_node
  /\ cur_sppf_node.lbl = str_label(L.X)

pop_arguments ==
  /\ cur_sppf_node.lbl.k = "str"
  /\ is_nt(cur_sppf_node.lbl.X)
  /\ cur_sppf_node.j = stack_top.idx
  /\ cur_sppf_node.i = cur_idx

pop_recorded ==
  /\ L' = L0
  /\ stack_top # stack_bottom =>
       parser'.P[stack_top] = Append(parser.P[stack_top], cur_sppf_node)
  /\ stack_top = stack_bottom => parser' = parser

C34_EpsilonPopsAsEndOfRule ==
  [][/\ (gpc = "run" /\ L.k = "slot" /\ cur_rule = <<>>) => epsilon_pop
     /\ (gpc = "run" /\ L.k = "slot" /\ cur_rule # <<>> /\ L.dot = Len(cur_rule))
          => end_of_rule_pop
     /\ (gpc' = "run" /\ L' = L_) => pop_arguments'
     /\ (gpc = "run" /\ L = L_) => pop_recorded]_driver_state

\* C35: in every state of a GLL parse of an input of length n the current
\* index and the index of every queued descriptor lie in 0..n, and no
\* IndexError was raised by U[i] or I[i]; whatever the terminals of the
\* grammar, '$' included.
C35_IndexesInRange ==
  gpc \in {"run", "done"} =>
    /\ parser.m = Len(text)
    /\ Len(parser.U) = parser.m + 1
    /\ cur_idx \in 0..parser.m
    /\ \A k \in 1..Len(parser.threads) : parser.threads[k].idx \in 0..parser.m
    /\ parser.err # "IndexError"
    /\ goutcome # "IndexError"

\* C36: no tree returned by extract_a_tree, over the Earley forest or over
\* the GLL SPPF, has a nonterminal node with a proper ancestor, the root
\* included, of the same name over the same span of the input.
\* The span of a node is counted from the tokens the tree yields.
yield_len(trees) == Len(Flatten(Map(tree_to_str, trees)))

\* Some node of tree, which starts at token from, has its identity among
\* above, the identities of its ancestors, or below itself.
RECURSIVE direct_recursion(_, _, _)
direct_recursion(tree, from, above) ==
  /\ is_nt(tree[1])
  /\ LET nid == <<tree[1], from, from + yield_len(<<tree>>)>>
     IN \/ nid \in above
        \/ \E k \in 1..Len(tree[2]) :
             direct_recursion(tree[2][k],
                              from + yield_len(SubSeq(tree[2], 1, k - 1)),
                              above \cup {nid})

C36_NoDirectRecursion ==
  /\ \A k \in 1..Len(xtrees) : ~direct_recursion(xtrees[k], 0, {})
  /\ \A k \in 1..Len(gxtrees) : ~direct_recursion(gxtrees[k], 0, {})

\* C37: calls of extract_a_tree on the GLL EnhancedExtractor raise no
\* AssertionError, also when the SPPF has a packed node whose child is the
\* epsilon node (None, i, i), and no tree they return has a node for a
\* dummy node (the key '' extract_a_node gives it): the epsilon
\* alternative leaves its nonterminal with an empty child list.
RECURSIVE emits_dummy(_)
emits_dummy(tree) ==
  tree[1] = "" \/ \E k \in 1..Len(tree[2]) : emits_dummy(tree[2][k])

C37_EpsilonExtracted ==
  gxpc = "ready" =>
    /\ gxreturned # "AssertionError"
    /\ \A k \in 1..Len(gxtrees) : ~emits_dummy(gxtrees[k])

\* C38: the calls of extract_a_tree on an extractor return, before the
\* enumeration ends, every derivation tree of the input that has no direct
\* recursion: when a call has returned None, or has raised (every later
\* call then raises again), each of these trees has been returned, and
\* what was returned are derivation trees of the input.
\* The derivation trees of x in which no node has an ancestor of the same
\* identity, anc being the identities above x.
RECURSIVE TreesNoRecursion(_, _, _, _, _)
TreesNoRecursion(g, D, txt, x, anc) ==
  IF x[1] \notin DOMAIN g THEN {<<x[1], <<>> >>}
  ELSE IF x \in anc THEN {}
  ELSE {<<x[1], kids>> :
          kids \in UNION {SeqsOver([k \in 1..Len(sp) |->
                                      TreesNoRecursion(g, D, txt, sp[k], anc \cup {x})]) :
                            sp \in AllSplits(g, D, txt, x)}}

NoRecursionTrees ==
  TreesNoRecursion(grammar, Derives(grammar, text), text, Root, {})

\* tree is a derivation tree of grammar: every nonterminal node is
\* expanded by one of its alternatives.
RECURSIVE IsDerivation(_, _)
IsDerivation(g, tree) ==
  IF tree[1] \notin DOMAIN g THEN tree[2] = <<>>
  ELSE /\ \E a \in 1..Len(g[tree[1]]) :
            g[tree[1]][a] = [k \in 1..Len(tree[2]) |-> tree[2][k][1]]
       /\ \A k \in 1..Len(tree[2]) : IsDerivation(g, tree[2][k])

derivations_of_text(trees) ==
  \A k \in 1..Len(trees) :
    /\ trees[k][1] = start_symbol
    /\ IsDerivation(grammar, trees[k])
    /\ tree_to_str(trees[k]) = text

earley_enumerated ==
  xnones >= 1 =>
    /\ NoRecursionTrees \subseteq Range(xtrees)
    /\ derivations_of_text(xtrees)

gll_enumerated ==
  gxreturned \in {None, "AssertionError"} =>
    /\ NoRecursionTrees \subseteq Range(gxtrees)
    /\ derivations_of_text(gxtrees)

C38_EnumerationComplete == earley_enumerated /\ gll_enumerated

\* C39: every traversal extract_a_tree starts, over the Earley forest or
\* over the GLL SPPF, starts with a chain of choice records (the root and
\* what its next pointers reach) in which every record is unfinished and
\* has at least one choice, and which ends at the record last incremented:
\* the records made after an increment have chosen = 0, so the record last
\* incremented is the deepest one with chosen >= 1, and its next is None
\* when it ends the chain.
\* choose_path gives None, and the intermediate-node branch its assert
\* False, only for a finished record of that chain, the records a
\* traversal appends having chosen = 0 < total.
clean_chain(chain) ==
  /\ \A k \in 1..Len(chain) :
       /\ chain[k].total >= 1
       /\ chain[k].chosen >= 0
       /\ ~choice_finished(chain[k])
  /\ (\E k \in 1..Len(chain) : chain[k].chosen >= 1) =>
       chain[Len(chain)].chosen >= 1

\* The chains the traversals of the next extract_a_tree call start with.
RECURSIVE traversal_starts(_, _, _, _, _)
traversal_starts(g, ch, txt, forest_node, chain) ==
  IF choice_finished(chain[1]) THEN {}
  ELSE LET r == extract_a_node(g, ch, txt, forest_node, {}, chain, 1)
       IN {chain} \cup (IF r.none
                        THEN traversal_starts(g, ch, txt, forest_node,
                                              increment(r.chain, r.k))
                        ELSE {})

RECURSIVE gll_traversal_starts(_, _, _)
gll_traversal_starts(nodes, top, chain) ==
  IF choice_finished(chain[1]) THEN {}
  ELSE LET r == gll_extract_a_node(nodes, top, {}, chain, 1)
       IN {chain} \cup (IF r.kind = "None"
                        THEN gll_traversal_starts(nodes, top, increment(r.chain, r.k))
                        ELSE {})

C39_TraversalsStartClean ==
  /\ xpc = "ready" =>
       \A chain \in traversal_starts(grammar, chart, text, my_forest, choices) :
         clean_chain(chain)
  /\ gxpc = "ready" =>
       \A chain \in gll_traversal_starts(parser.SPPF_nodes, root, gchoices) :
         clean_chain(chain)

====
